---- MODULE Spec2Model ----
(***************************************************************************)
(* A model of the OAuth proxy of webex-go-mcp: the persistence Store (the   *)
(* in-memory backend and the SQL backends), the client registry, and the    *)
(* /authorize, /callback, /token flow that runs on top of the Store.        *)
(*                                                                          *)
(* Time is counted in minutes; the clock advances TickStep minutes at a    *)
(* time.  Random values (opaque tokens, codes,        *)
(* states) are drawn from a counter: a value is never generated twice.      *)
(***************************************************************************)
EXTENDS Integers, Sequences, FiniteSets, TLC

VARIABLES
    now,        \* the wall clock, time.Now(), in minutes
    ms,         \* MemoryStore: the maps authCodes and pendingAuths
    sq,         \* the SQL database: the tables auth_codes and pending_auths
    call,       \* the last Store call made (the same call goes to both backends)
    res,        \* what that call returned, per backend
    stored,     \* history: per backend and key, the record stored successfully and
                \* not yet asked for by a Consume call
    uses        \* history: per backend and key, the Consume calls since the last
                \* successful Store

storeVars == <<now, ms, sq, call, res, stored, uses>>

VARIABLES
    g,          \* the request goroutines inside a Store method: per goroutine the
                \* method, its key, its place in the method, the record it read,
                \* and what it returned
    mu,         \* MemoryStore.mu: the goroutine that holds the lock, 0 if free
    wlock       \* the SQL database's write lock: the transaction that holds an
                \* uncommitted write, 0 if none

raceVars == <<g, mu, wlock>>

VARIABLES
    fresh,      \* how many random values generateSecureToken has produced
    registered  \* history: per client id, the redirect URIs that were registered

clientVars == <<fresh, registered>>

VARIABLES
    backend,    \* the Store that NewStore built: "mem" or "sql"
    slots,      \* the goroutines serving /callback and /token requests
    trail       \* history: where every state, code and token came from

flowVars == <<backend, slots, trail>>

VARIABLES
    cache,      \* ClientCache.entries: per token hash the client and its expiry
    webex,      \* how many token pairs the Webex token endpoint has issued
    shadow,     \* the two stores run without their sweeper, for comparison
    life        \* the process's background goroutines and handles: where each
                \* sweeper stands, the stop channel, the storage handle

sessionVars == <<cache, webex, shadow, life>>

VARIABLES
    tools,      \* the tool filter and the FilteredRegistrar built on it: the include
                \* and exclude sets, the two counters, the tools handed to the
                \* inner registrar, and, as history, the AddTool calls made
    mercury,    \* the streaming manager: userConns, subscriptions, and the calls
                \* that are inside one of its methods
    notes       \* history that single specifications keep: per Webex access
                \* token the time at which Webex issued it (at, kept when on
                \* is set), and the authorization codes that a rejected /token
                \* request has used up (burnt)

sideVars == <<tools, mercury, notes>>

vars == <<storeVars, raceVars, clientVars, flowVars, sessionVars, sideVars>>

\* what a specification does not use keeps the value Init gave it
notStore == <<raceVars, clientVars, flowVars, sessionVars, sideVars>>

notRace == <<call, res, uses, clientVars, flowVars, sessionVars, sideVars>>

notClients == <<now, stored, uses, raceVars, flowVars, sessionVars, sideVars>>

notFlow == <<stored, uses, raceVars, registered, cache, shadow, life, sideVars>>

notSession == <<stored, uses, raceVars, registered, shadow, life, sideVars>>

notSweep == <<stored, uses, raceVars, clientVars, flowVars, cache, webex, life, sideVars>>

-----------------------------------------------------------------------------
(* Bounds and program constants *)

MaxTime == 15

TickStep == 5

AuthCodeTTL == 5

PendingAuthTTL == 10

Codes == {"code1"}

States == {"state1"}

ClientIDs == {"A", "B"}

Backends == {"mem", "sql"}

NumRequests == 2

Requests == 1 .. NumRequests

-----------------------------------------------------------------------------
(* Maps with a partial domain: Go maps, and SQL tables by primary key *)

EmptyMap == << >>

Put(f, k, v) == [x \in (DOMAIN f) \cup {k} |-> IF x = k THEN v ELSE f[x]]

Del(f, k) == [x \in (DOMAIN f) \ {k} |-> f[x]]

Has(f, k) == k \in DOMAIN f

(* The two results of a lookup: (nil, false) and (record, true) *)
NotFound == [ok |-> FALSE]

Found(r) == [ok |-> TRUE, rec |-> r]

Void == [ok |-> TRUE]

\* writeJSONError: a JSON object with the keys error and error_description
writeJSONError ==
    [contentType |-> "application/json", keys |-> {"error", "error_description"}]

\* http.Error: the message as plain text
http_Error == [contentType |-> "text/plain; charset=utf-8", keys |-> {}]

\* a goroutine that serves no request; after a request it holds the response
NoRequest ==
    [kind |-> "none", pc |-> "done", key |-> "", clientID |-> "", uri |-> << >>,
     verifier |-> "", row |-> NotFound, body |-> [contentType |-> "", keys |-> {}], late |-> FALSE, status |-> 0, error |-> "",
     \* a protected request: the header, the access token it goes on with, and,
     \* as history, what it found at LookupToken and what its refresh was given
     hdr |-> << >>, tok |-> "", at |-> 0, found |-> NotFound, stale |-> {},
     refreshed |-> FALSE, issued |-> ""]

\* NewStore and NewClientCache have returned: both sweeper goroutines wait for
\* their ticker, stopCleanup is open, the storage handle is open; late is
\* history: the sweepers that touched the store or the cache after Close
Started ==
    [stopCleanup |-> "open", closed |-> FALSE, sweeper |-> "select", at |-> 0,
     cacheSweeper |-> "range", late |-> {}]

\* no filter was built and no tool offered
NoTools ==
    [include |-> {}, exclude |-> {}, registered |-> 0, skipped |-> 0, inner |-> {},
     calls |-> 0, raw |-> << << >>, << >> >>, offered |-> {}]

\* a goroutine that is in no method of the MercuryManager
IdleCall ==
    [op |-> "none", pc |-> "idle", hash |-> << >>, uc |-> 0, todo |-> {}]

\* NewMercuryManager has returned: no connection, no subscription, no call;
\* conns are the userConnection objects made so far, userConns holds their
\* places in conns
NoMercury ==
    [userConns |-> << >>, conns |-> << >>, subscriptions |-> << >>,
     calls |-> [i \in Requests |-> IdleCall], made |-> 0, waits |-> 0]

\* the times of issue are not kept
NoNotes == [on |-> FALSE, at |-> EmptyMap, burnt |-> {}]

\* no protected request was made, Webex has issued nothing
NoSession ==
    /\ cache = EmptyMap
    /\ webex = 0
    /\ shadow = EmptyMap
    /\ life = Started

NoTrail ==
    [authorized |-> EmptyMap, codeOf |-> EmptyMap, tokenOf |-> EmptyMap, redeemed |-> {},
     \* the opaque tokens RevokeToken was called for, the Webex access tokens
     \* that UpdateWebexToken has overwritten
     revoked |-> {}, replaced |-> {}]

RowOf(f, k) == IF Has(f, k) THEN Found(f[k]) ELSE NotFound

-----------------------------------------------------------------------------
(* Expiry, as the backends decide it *)

\* time.Now().After(record.ExpiresAt)
AuthCodeExpired(record, t) == t > record.ExpiresAt

\* time.Since(pending.CreatedAt) > 10*time.Minute
PendingAuthExpired(pending, t) == t - pending.CreatedAt > PendingAuthTTL

-----------------------------------------------------------------------------
(* MemoryStore: every method runs under ms.mu, so it is one step here.      *)
(* A method that returns something yields [store, ret].                     *)

NewMemoryStore ==
    [authCodes |-> EmptyMap, pendingAuths |-> EmptyMap, clients |-> EmptyMap,
     tokens |-> EmptyMap]

MemoryStore_StoreAuthCode(m, record) ==
    [m EXCEPT !.authCodes = Put(@, record.Code, record)]

\* mutant: the record is returned but left in the map
MemoryStore_ConsumeAuthCode_NoDelete(m, code, t) ==
    IF ~Has(m.authCodes, code)
    THEN [store |-> m, ret |-> NotFound]
    ELSE LET record == m.authCodes[code]
         IN  IF AuthCodeExpired(record, t)
             THEN [store |-> m, ret |-> NotFound]
             ELSE [store |-> m, ret |-> Found(record)]

\* mutant: check-then-delete, an expired record is reported and left in place
MemoryStore_ConsumeAuthCode_CheckThenDelete(m, code, t) ==
    IF ~Has(m.authCodes, code)
    THEN [store |-> m, ret |-> NotFound]
    ELSE LET record == m.authCodes[code]
         IN  IF AuthCodeExpired(record, t)
             THEN [store |-> m, ret |-> NotFound]
             ELSE [store |-> [m EXCEPT !.authCodes = Del(@, code)], ret |-> Found(record)]

MemoryStore_ConsumeAuthCode(m, code, t) ==
    IF ~Has(m.authCodes, code)
    THEN [store |-> m, ret |-> NotFound]
    ELSE LET record == m.authCodes[code]
             m2 == [m EXCEPT !.authCodes = Del(@, code)]
         IN  IF AuthCodeExpired(record, t)
             THEN [store |-> m2, ret |-> NotFound]
             ELSE [store |-> m2, ret |-> Found(record)]

MemoryStore_StorePendingAuth(m, pending) ==
    [m EXCEPT !.pendingAuths = Put(@, pending.State, pending)]

MemoryStore_ConsumePendingAuth(m, state, t) ==
    IF ~Has(m.pendingAuths, state)
    THEN [store |-> m, ret |-> NotFound]
    ELSE LET pending == m.pendingAuths[state]
             m2 == [m EXCEPT !.pendingAuths = Del(@, state)]
         IN  IF PendingAuthExpired(pending, t)
             THEN [store |-> m2, ret |-> NotFound]
             ELSE [store |-> m2, ret |-> Found(pending)]

\* one tick of the sweeper
\* mutant: the sweep also drops the token records whose Webex token has expired
MemoryStore_cleanup_Tokens(m, t) ==
    [m EXCEPT
        !.authCodes = [k \in {x \in DOMAIN @ : ~AuthCodeExpired(@[x], t)} |-> @[k]],
        !.pendingAuths = [k \in {x \in DOMAIN @ : ~PendingAuthExpired(@[x], t)} |-> @[k]],
        !.tokens = [k \in {x \in DOMAIN @ : ~(t > @[x].ExpiresAt)} |-> @[k]]]

MemoryStore_cleanup(m, t) ==
    [m EXCEPT
        !.authCodes = [k \in {x \in DOMAIN @ : ~AuthCodeExpired(@[x], t)} |-> @[k]],
        !.pendingAuths = [k \in {x \in DOMAIN @ : ~PendingAuthExpired(@[x], t)} |-> @[k]]]

-----------------------------------------------------------------------------
(* The SQL backends.  SQLiteStore and PostgresStore run the same statements *)
(* (they differ in placeholder syntax only), so one model stands for both.  *)
(* A table is a map from its primary key to the row.                        *)

\* INSERT INTO t ... : fails on a primary key that is already there
SqlInsert(table, key, row) ==
    IF Has(table, key)
    THEN [table |-> table, err |-> TRUE]
    ELSE [table |-> Put(table, key, row), err |-> FALSE]

\* SELECT ... FROM t WHERE pk = key, then row.Scan
SqlSelect(table, key) == RowOf(table, key)

\* mutant: the DELETE removes nothing
SqlDelete_Nothing(table, key) == table

\* DELETE FROM t WHERE pk = key
SqlDelete(table, key) == Del(table, key)

NewSQLiteStore ==
    [authCodes |-> EmptyMap, pendingAuths |-> EmptyMap, clients |-> EmptyMap,
     tokens |-> EmptyMap]

\* s.db.Exec(INSERT ...): the error is dropped by the code; it is returned here
\* for the history variables only
SQLiteStore_StoreAuthCode(d, record) ==
    LET ins == SqlInsert(d.authCodes, record.Code, record)
    IN  [store |-> [d EXCEPT !.authCodes = ins.table], err |-> ins.err]

\* Begin; SELECT; (no row: return) DELETE; Commit; expiry check
SQLiteStore_ConsumeAuthCode(d, code, t) ==
    LET row == SqlSelect(d.authCodes, code)
    IN  IF ~row.ok
        THEN [store |-> d, ret |-> NotFound]
        ELSE LET d2 == [d EXCEPT !.authCodes = SqlDelete(@, code)]
             IN  IF AuthCodeExpired(row.rec, t)
                 THEN [store |-> d2, ret |-> NotFound]
                 ELSE [store |-> d2, ret |-> Found(row.rec)]

SQLiteStore_StorePendingAuth(d, pending) ==
    LET ins == SqlInsert(d.pendingAuths, pending.State, pending)
    IN  [store |-> [d EXCEPT !.pendingAuths = ins.table], err |-> ins.err]

\* mutant: the row is deleted and returned without the expiry check
SQLiteStore_ConsumePendingAuth_NoExpiry(d, state, t) ==
    LET row == SqlSelect(d.pendingAuths, state)
    IN  IF ~row.ok
        THEN [store |-> d, ret |-> NotFound]
        ELSE [store |-> [d EXCEPT !.pendingAuths = SqlDelete(@, state)],
              ret |-> Found(row.rec)]

SQLiteStore_ConsumePendingAuth(d, state, t) ==
    LET row == SqlSelect(d.pendingAuths, state)
    IN  IF ~row.ok
        THEN [store |-> d, ret |-> NotFound]
        ELSE LET d2 == [d EXCEPT !.pendingAuths = SqlDelete(@, state)]
             IN  IF PendingAuthExpired(row.rec, t)
                 THEN [store |-> d2, ret |-> NotFound]
                 ELSE [store |-> d2, ret |-> Found(row.rec)]

\* DELETE FROM auth_codes WHERE expires_at < now;
\* DELETE FROM pending_auths WHERE created_at < now - 10 min
SQLiteStore_cleanup(d, t) ==
    [d EXCEPT
        !.authCodes = [k \in {x \in DOMAIN @ : ~(@[x].ExpiresAt < t)} |-> @[k]],
        !.pendingAuths =
            [k \in {x \in DOMAIN @ : ~(@[x].CreatedAt < t - PendingAuthTTL)} |-> @[k]]]

-----------------------------------------------------------------------------
(* Spec: the Store contract, called sequentially.  Every call is made on    *)
(* the in-memory backend and on the SQL backend, from the same state of the *)
(* clock, and both answers are kept.                                        *)

Tables == {"authCodes", "pendingAuths"}

NumCallers == 3

Goroutines == 1 .. NumCallers

\* a goroutine that has not made its call yet
Idle == [pc |-> "idle", op |-> "", tbl |-> "authCodes", key |-> "", row |-> NotFound,
         ret |-> NotFound, del |-> FALSE]

KeysOf(tbl) == IF tbl = "authCodes" THEN Codes ELSE States

UseCap == 2

\* the records a caller may hand to StoreAuthCode at time t: one issued now
\* (HandleCallback: ExpiresAt = now + 5 min) and one that is already expired
AuthCodeInputs(t) ==
    [Code : Codes, ClientID : ClientIDs, ExpiresAt : {t + AuthCodeTTL, t - 1}]

\* likewise for StorePendingAuth: created now, or created more than 10 min ago
PendingAuthInputs(t) ==
    [State : States, ClientID : {"A"}, CreatedAt : {t, t - PendingAuthTTL - 1}]

NoRow == [mem |-> NotFound, sql |-> NotFound]

Rows(tbl, key) == [mem |-> RowOf(ms[tbl], key), sql |-> RowOf(sq[tbl], key)]

\* the call, with what the key held when it was made: the row in each backend
\* and (history) the record whose Store the call is the first Consume of
Call(op, tbl, key) ==
    [op |-> op, tbl |-> tbl, key |-> key, row |-> Rows(tbl, key),
     first |-> [b \in Backends |-> RowOf(stored[b][tbl], key)]]

\* history: a Store that succeeded on backend b starts a new life of the key
NoteStore(h, b, tbl, key, v, success) ==
    IF success THEN [h EXCEPT ![b][tbl] = Put(@, key, v)] ELSE h

\* history: one more Consume call on the key
NoteConsume(h, b, tbl, key) ==
    IF Has(h[b][tbl], key)
    THEN [h EXCEPT ![b][tbl][key] = IF @ < UseCap THEN @ + 1 ELSE @]
    ELSE h

\* everything but the tool registrar and the streaming manager
InitCore ==
    /\ now = 0
    /\ ms = NewMemoryStore
    /\ sq = NewSQLiteStore
    /\ call = [op |-> "New", tbl |-> "authCodes", key |-> "", row |-> NoRow, first |-> NoRow]
    /\ res = [mem |-> Void, sql |-> Void]
    /\ stored = [b \in Backends |-> [t \in Tables |-> EmptyMap]]
    /\ uses = [b \in Backends |-> [t \in Tables |-> EmptyMap]]
    /\ g = [i \in Goroutines |-> Idle]
    /\ mu = 0
    /\ wlock = 0
    /\ fresh = 0
    /\ registered = EmptyMap
    /\ backend = "mem"
    /\ slots = [i \in Requests |-> NoRequest]
    /\ trail = NoTrail
    /\ NoSession

Init ==
    /\ InitCore
    /\ tools = NoTools
    /\ mercury = NoMercury
    /\ notes = NoNotes

Tick ==
    /\ now + TickStep <= MaxTime
    /\ now' = now + TickStep
    /\ call' = [op |-> "Tick", tbl |-> "authCodes", key |-> "", row |-> NoRow, first |-> NoRow]
    /\ res' = [mem |-> Void, sql |-> Void]
    /\ UNCHANGED <<ms, sq, stored, uses>>
    /\ UNCHANGED notStore

StoreAuthCode ==
    \E record \in AuthCodeInputs(now) :
        LET s == SQLiteStore_StoreAuthCode(sq, record)
            k == record.Code
        IN  /\ ms' = MemoryStore_StoreAuthCode(ms, record)
            /\ sq' = s.store
            /\ call' = Call("StoreAuthCode", "authCodes", k)
            /\ res' = [mem |-> Void, sql |-> Void]
            /\ stored' = NoteStore(NoteStore(stored, "mem", "authCodes", k, record, TRUE),
                                   "sql", "authCodes", k, record, ~s.err)
            /\ uses' = NoteStore(NoteStore(uses, "mem", "authCodes", k, 0, TRUE),
                                 "sql", "authCodes", k, 0, ~s.err)
            /\ UNCHANGED now
            /\ UNCHANGED notStore

ConsumeAuthCode ==
    \E code \in Codes :
        LET m == MemoryStore_ConsumeAuthCode(ms, code, now)
            s == SQLiteStore_ConsumeAuthCode(sq, code, now)
        IN  /\ ms' = m.store
            /\ sq' = s.store
            /\ call' = Call("ConsumeAuthCode", "authCodes", code)
            /\ res' = [mem |-> m.ret, sql |-> s.ret]
            /\ uses' = NoteConsume(NoteConsume(uses, "mem", "authCodes", code),
                                   "sql", "authCodes", code)
            /\ stored' = [b \in Backends |-> [stored[b] EXCEPT !["authCodes"] = Del(@, code)]]
            /\ UNCHANGED now
            /\ UNCHANGED notStore

StorePendingAuth ==
    \E pending \in PendingAuthInputs(now) :
        LET s == SQLiteStore_StorePendingAuth(sq, pending)
            k == pending.State
        IN  /\ ms' = MemoryStore_StorePendingAuth(ms, pending)
            /\ sq' = s.store
            /\ call' = Call("StorePendingAuth", "pendingAuths", k)
            /\ res' = [mem |-> Void, sql |-> Void]
            /\ stored' = NoteStore(NoteStore(stored, "mem", "pendingAuths", k, pending, TRUE),
                                   "sql", "pendingAuths", k, pending, ~s.err)
            /\ uses' = NoteStore(NoteStore(uses, "mem", "pendingAuths", k, 0, TRUE),
                                 "sql", "pendingAuths", k, 0, ~s.err)
            /\ UNCHANGED now
            /\ UNCHANGED notStore

ConsumePendingAuth ==
    \E state \in States :
        LET m == MemoryStore_ConsumePendingAuth(ms, state, now)
            s == SQLiteStore_ConsumePendingAuth(sq, state, now)
        IN  /\ ms' = m.store
            /\ sq' = s.store
            /\ call' = Call("ConsumePendingAuth", "pendingAuths", state)
            /\ res' = [mem |-> m.ret, sql |-> s.ret]
            /\ uses' = NoteConsume(NoteConsume(uses, "mem", "pendingAuths", state),
                                   "sql", "pendingAuths", state)
            /\ stored' = [b \in Backends |-> [stored[b] EXCEPT !["pendingAuths"] = Del(@, state)]]
            /\ UNCHANGED now
            /\ UNCHANGED notStore

\* the ticker of the background sweeper fires (in both backends)
Cleanup ==
    /\ ms' = MemoryStore_cleanup(ms, now)
    /\ sq' = SQLiteStore_cleanup(sq, now)
    /\ call' = [op |-> "cleanup", tbl |-> "authCodes", key |-> "", row |-> NoRow, first |-> NoRow]
    /\ res' = [mem |-> Void, sql |-> Void]
    /\ UNCHANGED <<now, stored, uses>>
    /\ UNCHANGED notStore

Next ==
    \/ Tick
    \/ StoreAuthCode
    \/ ConsumeAuthCode
    \/ StorePendingAuth
    \/ ConsumePendingAuth
    \/ Cleanup

Spec == Init /\ [][Next]_vars

-----------------------------------------------------------------------------
(* Claims on the Store contract (Spec) *)

IsConsume == call.op \in {"ConsumeAuthCode", "ConsumePendingAuth"}

\* "expired" in the words of the specification: an authorization code whose
\* ExpiresAt is before now, a pending authorization created more than 10
\* minutes before now
IsExpired(tbl, rec, t) ==
    IF tbl = "authCodes" THEN rec.ExpiresAt < t ELSE t - rec.CreatedAt > PendingAuthTTL

UsesOf(b) == IF Has(uses[b][call.tbl], call.key) THEN uses[b][call.tbl][call.key] ELSE 0

\* C1: consume-once.  After a successful Store of a key, the first Consume of
\* that key returns the stored record if it is unexpired (and not-found if it
\* is expired); every later Consume of the key returns not-found, as long as
\* no Store of the key succeeds in between.  In both backends.
ConsumeOnce ==
    IsConsume =>
        \A b \in Backends :
            /\ UsesOf(b) >= 2 => res[b] = NotFound
            /\ call.first[b].ok =>
                   res[b] = IF IsExpired(call.tbl, call.first[b].rec, now)
                            THEN NotFound
                            ELSE Found(call.first[b].rec)

\* a second Consume of a stored key has been made, in both backends
ConsumeOnceWitness ==
    /\ call.op = "ConsumeAuthCode"
    /\ UsesOf("mem") = 2
    /\ UsesOf("sql") = 2
    /\ res = [mem |-> NotFound, sql |-> NotFound]

\* C4: expiry is enforced by Consume itself.  A Consume that finds the row
\* still in the store (no sweep has removed it) and expired returns not-found.
ExpiryAtConsume ==
    IsConsume =>
        \A b \in Backends :
            (call.row[b].ok /\ IsExpired(call.tbl, call.row[b].rec, now))
                => res[b] = NotFound

\* a pending authorization that expired by the passing of time, still in both
\* stores, has been asked for
ExpiryAtConsumeWitness ==
    /\ call.op = "ConsumePendingAuth"
    /\ \A b \in Backends :
           /\ call.row[b].ok
           /\ call.row[b].rec.CreatedAt >= 0
           /\ IsExpired(call.tbl, call.row[b].rec, now)

\* C5: delete-then-check.  After a Consume call on a key, expired or not, no
\* backend holds a record for the key.
DeleteThenCheck ==
    IsConsume => (~Has(ms[call.tbl], call.key) /\ ~Has(sq[call.tbl], call.key))

\* a Consume call found an expired authorization code, and it is gone
DeleteThenCheckWitness ==
    /\ call.op = "ConsumeAuthCode"
    /\ \A b \in Backends :
           call.row[b].ok /\ IsExpired(call.tbl, call.row[b].rec, now)
    /\ ~Has(ms.authCodes, call.key)
    /\ ~Has(sq.authCodes, call.key)

\* C6: backend equivalence.  Every call returns the same result in the
\* in-memory backend and in the SQL backend.  (Violated: a second
\* StoreAuthCode of a code that is present replaces the record in the map and
\* is a failed INSERT, dropped, in SQL.)
BackendEquivalence == res.mem = res.sql

-----------------------------------------------------------------------------
(* Concurrent Consume calls.  A goroutine runs one Consume method, statement *)
(* by statement; the statements of different goroutines interleave.          *)

RaceOps == {"ConsumeAuthCode", "ConsumePendingAuth"}

TblOf(op) == IF op = "ConsumeAuthCode" THEN "authCodes" ELSE "pendingAuths"

\* the expiry check at the end of both Consume methods
ExpiryCheck(tbl, row, t) ==
    IF (IF tbl = "authCodes" THEN AuthCodeExpired(row.rec, t)
                             ELSE PendingAuthExpired(row.rec, t))
    THEN NotFound
    ELSE row

\* the goroutine enters the method with a key
Enter(i, first) ==
    /\ g[i].pc = "idle"
    /\ \E op \in RaceOps : \E key \in KeysOf(TblOf(op)) :
           g' = [g EXCEPT ![i] = [Idle EXCEPT !.pc = first, !.op = op,
                                              !.tbl = TblOf(op), !.key = key]]

\* a store that holds one authorization code and one pending authorization,
\* each of them expired or not
RaceInit(mem, sql) ==
    /\ now = 0
    /\ \E record \in AuthCodeInputs(0) : \E pending \in PendingAuthInputs(0) :
           LET m == MemoryStore_StorePendingAuth(
                        MemoryStore_StoreAuthCode(NewMemoryStore, record), pending)
               d == SQLiteStore_StorePendingAuth(
                        SQLiteStore_StoreAuthCode(NewSQLiteStore, record).store,
                        pending).store
               h == [authCodes |-> Put(EmptyMap, record.Code, record),
                     pendingAuths |-> Put(EmptyMap, pending.State, pending)]
               none == [t \in Tables |-> EmptyMap]
           IN  /\ ms = IF mem THEN m ELSE NewMemoryStore
               /\ sq = IF sql THEN d ELSE NewSQLiteStore
               /\ stored = [mem |-> IF mem THEN h ELSE none,
                            sql |-> IF sql THEN h ELSE none]
    /\ call = [op |-> "New", tbl |-> "authCodes", key |-> "", row |-> NoRow,
               first |-> NoRow]
    /\ res = [mem |-> Void, sql |-> Void]
    /\ uses = [b \in Backends |-> [t \in Tables |-> EmptyMap]]
    /\ g = [i \in Goroutines |-> Idle]
    /\ mu = 0
    /\ wlock = 0
    /\ fresh = 0
    /\ registered = EmptyMap
    /\ backend = "mem"
    /\ slots = [i \in Requests |-> NoRequest]
    /\ trail = NoTrail
    /\ NoSession
    /\ tools = NoTools
    /\ mercury = NoMercury
    /\ notes = NoNotes

(* SpecMemRace: MemoryStore.ConsumeAuthCode / ConsumePendingAuth *)

\* mutant: the lock does not exclude (a read lock taken where the write lock
\* is needed)
MuFree_Shared(m) == TRUE

\* ms.mu.Lock() returns when no goroutine holds the lock
MuFree(m) == m = 0

MemCall(i) ==
    /\ Enter(i, "lock")
    /\ UNCHANGED <<now, ms, sq, stored, mu, wlock>>
    /\ UNCHANGED notRace

\* ms.mu.Lock()
MemLock(i) ==
    /\ g[i].pc = "lock"
    /\ MuFree(mu)
    /\ mu' = i
    /\ g' = [g EXCEPT ![i].pc = "lookup"]
    /\ UNCHANGED <<now, ms, sq, stored, wlock>>
    /\ UNCHANGED notRace

\* record, ok := ms.authCodes[code]; if !ok { return nil, false }
MemLookup(i) ==
    /\ g[i].pc = "lookup"
    /\ LET row == RowOf(ms[g[i].tbl], g[i].key)
       IN  g' = [g EXCEPT ![i].row = row,
                          ![i].pc = IF row.ok THEN "delete" ELSE "unlock"]
    /\ UNCHANGED <<now, ms, sq, stored, mu, wlock>>
    /\ UNCHANGED notRace

\* delete(ms.authCodes, code)
MemDelete(i) ==
    /\ g[i].pc = "delete"
    /\ ms' = [ms EXCEPT ![g[i].tbl] = Del(@, g[i].key)]
    /\ g' = [g EXCEPT ![i].pc = "expiry"]
    /\ UNCHANGED <<now, sq, stored, mu, wlock>>
    /\ UNCHANGED notRace

\* if time.Now().After(record.ExpiresAt) { return nil, false }; return record, true
MemExpiry(i) ==
    /\ g[i].pc = "expiry"
    /\ g' = [g EXCEPT ![i].ret = ExpiryCheck(g[i].tbl, g[i].row, now),
                      ![i].pc = "unlock"]
    /\ UNCHANGED <<now, ms, sq, stored, mu, wlock>>
    /\ UNCHANGED notRace

\* defer ms.mu.Unlock()
MemUnlock(i) ==
    /\ g[i].pc = "unlock"
    /\ mu' = 0
    /\ g' = [g EXCEPT ![i].pc = "done"]
    /\ UNCHANGED <<now, ms, sq, stored, wlock>>
    /\ UNCHANGED notRace

InitMemRace == RaceInit(TRUE, FALSE)

NextMemRace ==
    \/ \E i \in Goroutines : MemCall(i)
    \/ \E i \in Goroutines : MemLock(i)
    \/ \E i \in Goroutines : MemLookup(i)
    \/ \E i \in Goroutines : MemDelete(i)
    \/ \E i \in Goroutines : MemExpiry(i)
    \/ \E i \in Goroutines : MemUnlock(i)

SpecMemRace == InitMemRace /\ [][NextMemRace]_vars

(* SpecSqlRace: SQLiteStore / PostgresStore ConsumeAuthCode and             *)
(* ConsumePendingAuth.  Each call is a transaction of its own connection:   *)
(* SELECT, DELETE, COMMIT.  A SELECT reads the committed rows and takes no  *)
(* lock.  A DELETE is visible to others at COMMIT.  While a transaction     *)
(* holds an uncommitted write, the DELETE of another one either waits for   *)
(* it (PostgreSQL's row lock, SQLite's busy timeout) or fails (SQLITE_BUSY):*)
(* the code drops the error of tx.Exec and goes on.                         *)

\* tx, err := s.db.Begin()
TxBegin(i) ==
    /\ Enter(i, "select")
    /\ UNCHANGED <<now, ms, sq, stored, mu, wlock>>
    /\ UNCHANGED notRace

\* row := tx.QueryRow(SELECT ...); if row.Scan(...) != nil { return nil, false }
TxSelect(i) ==
    /\ g[i].pc = "select"
    /\ LET row == SqlSelect(sq[g[i].tbl], g[i].key)
       IN  g' = [g EXCEPT ![i].row = row,
                          ![i].pc = IF row.ok THEN "delete" ELSE "done"]
    /\ UNCHANGED <<now, ms, sq, stored, mu, wlock>>
    /\ UNCHANGED notRace

\* tx.Exec(DELETE ...), no other transaction holds an uncommitted write
TxDelete(i) ==
    /\ g[i].pc = "delete"
    /\ wlock \in {0, i}
    /\ wlock' = i
    /\ g' = [g EXCEPT ![i].del = TRUE, ![i].pc = "commit"]
    /\ UNCHANGED <<now, ms, sq, stored, mu>>
    /\ UNCHANGED notRace

\* tx.Exec(DELETE ...) fails because the database is locked; the error is dropped
TxDeleteBusy(i) ==
    /\ g[i].pc = "delete"
    /\ wlock \notin {0, i}
    /\ g' = [g EXCEPT ![i].pc = "commit"]
    /\ UNCHANGED <<now, ms, sq, stored, mu, wlock>>
    /\ UNCHANGED notRace

\* tx.Commit()
TxCommit(i) ==
    /\ g[i].pc = "commit"
    /\ sq' = IF g[i].del THEN [sq EXCEPT ![g[i].tbl] = SqlDelete(@, g[i].key)] ELSE sq
    /\ wlock' = IF wlock = i THEN 0 ELSE wlock
    /\ g' = [g EXCEPT ![i].pc = "expiry"]
    /\ UNCHANGED <<now, ms, stored, mu>>
    /\ UNCHANGED notRace

\* if time.Now().After(r.ExpiresAt) { return nil, false }; return &r, true
TxExpiry(i) ==
    /\ g[i].pc = "expiry"
    /\ g' = [g EXCEPT ![i].ret = ExpiryCheck(g[i].tbl, g[i].row, now),
                      ![i].pc = "done"]
    /\ UNCHANGED <<now, ms, sq, stored, mu, wlock>>
    /\ UNCHANGED notRace

InitSqlRace == RaceInit(FALSE, TRUE)

NextSqlRace ==
    \/ \E i \in Goroutines : TxBegin(i)
    \/ \E i \in Goroutines : TxSelect(i)
    \/ \E i \in Goroutines : TxDelete(i)
    \/ \E i \in Goroutines : TxDeleteBusy(i)
    \/ \E i \in Goroutines : TxCommit(i)
    \/ \E i \in Goroutines : TxExpiry(i)

SpecSqlRace == InitSqlRace /\ [][NextSqlRace]_vars

-----------------------------------------------------------------------------
(* Claims on concurrent Consume calls *)

\* the goroutines that called op on key, and those of them that got the record
Callers(op, key) == {i \in Goroutines : g[i].op = op /\ g[i].key = key}

Winners(op, key) == {i \in Callers(op, key) : g[i].pc = "done" /\ g[i].ret.ok}

AllDone(op, key) == \A i \in Callers(op, key) : g[i].pc = "done"

\* the record the store held for the key when the race began, unexpired
StoredUnexpired(b, op, key) ==
    /\ Has(stored[b][TblOf(op)], key)
    /\ ~IsExpired(TblOf(op), stored[b][TblOf(op)][key], now)

\* C2: in the in-memory backend, of any number of concurrent Consume calls on
\* one stored, unexpired key, exactly one returns the record and all others
\* return not-found, in every interleaving.
MemConsumeLinearizable ==
    \A op \in RaceOps : \A key \in KeysOf(TblOf(op)) :
        /\ Cardinality(Winners(op, key)) <= 1
        /\ (Callers(op, key) # {} /\ AllDone(op, key) /\ StoredUnexpired("mem", op, key))
               => /\ Cardinality(Winners(op, key)) = 1
                  /\ \A i \in Winners(op, key) :
                         g[i].ret = Found(stored["mem"][TblOf(op)][key])

\* three calls raced on the unexpired authorization code; all have returned
MemConsumeLinearizableWitness ==
    /\ Cardinality(Callers("ConsumeAuthCode", "code1")) = 3
    /\ AllDone("ConsumeAuthCode", "code1")
    /\ StoredUnexpired("mem", "ConsumeAuthCode", "code1")
    /\ Cardinality(Winners("ConsumeAuthCode", "code1")) = 1

\* C3: in the SQL backends, of the concurrent Consume calls on one stored,
\* unexpired row, at most one returns the record, in every interleaving of
\* the transactions' statements.  (Violated: both transactions SELECT the row
\* before either DELETE commits.)
SqlConsumeAtMostOnce ==
    \A op \in RaceOps : \A key \in KeysOf(TblOf(op)) :
        Cardinality(Winners(op, key)) <= 1

-----------------------------------------------------------------------------
(* The client registry.  A string is a sequence of characters, so that one  *)
(* URI can extend another.                                                  *)

\* "https://x/cb", "https://x/cb/" and "https://x/cb?q=1&r=2", shortened
BaseURI == <<"c", "b">>

SlashURI == <<"c", "b", "/">>

QueryURI == <<"c", "b", "?", "q", "&", "r">>

URIs == {BaseURI, SlashURI, QueryURI}

RegisteredIDs == {"A", "B"}

MaxRegister == 1

\* the bodies POST /register may carry: one or two redirect URIs
RegistrationRequests ==
    {[RedirectURIs |-> <<u>>] : u \in URIs}
        \cup {[RedirectURIs |-> <<u, v>>] : u \in URIs, v \in URIs}

\* generateSecureToken: the n-th random value, never one a caller chose
GeneratedIDs ==
    <<"gen1", "gen2", "gen3", "gen4", "gen5", "gen6", "gen7", "gen8", "gen9", "gen10">>

Token(n) == GeneratedIDs[n]

(* encoding/json, for a []string.  Marshal writes the strings quoted and    *)
(* comma separated between brackets; inside a string it escapes the quote   *)
(* and the backslash with a backslash, and & as a \u0026 escape.            *)

JsonEscape(c) ==
    CASE c = "\"" -> <<"\\", "\"">>
      [] c = "\\" -> <<"\\", "\\">>
      [] c = "&" -> <<"\\", "u", "0", "0", "2", "6">>
      [] OTHER -> <<c>>

RECURSIVE JsonString(_)
JsonString(str) ==
    IF str = << >> THEN << >> ELSE JsonEscape(Head(str)) \o JsonString(Tail(str))

RECURSIVE JsonElems(_)
JsonElems(list) ==
    IF list = << >> THEN << >>
    ELSE <<"\"">> \o JsonString(Head(list)) \o <<"\"">>
             \o (IF Len(list) > 1 THEN <<",">> ELSE << >>)
             \o JsonElems(Tail(list))

JsonMarshal(list) == <<"[">> \o JsonElems(list) \o <<"]">>

(* Unmarshal reads the text back: i is the position, cur the string being   *)
(* read (inString), acc the strings read so far.                            *)
RECURSIVE JsonParse(_, _, _, _, _)
JsonParse(text, i, inString, cur, acc) ==
    IF i > Len(text) THEN acc
    ELSE IF inString
    THEN CASE text[i] = "\"" -> JsonParse(text, i + 1, FALSE, << >>, Append(acc, cur))
           [] text[i] = "\\" /\ text[i + 1] = "u" ->
                  \* the only \uXXXX Marshal writes here is &
                  JsonParse(text, i + 6, TRUE, Append(cur, "&"), acc)
           [] text[i] = "\\" /\ text[i + 1] # "u" ->
                  JsonParse(text, i + 2, TRUE, Append(cur, text[i + 1]), acc)
           [] OTHER -> JsonParse(text, i + 1, TRUE, Append(cur, text[i]), acc)
    ELSE CASE text[i] = "\"" -> JsonParse(text, i + 1, TRUE, << >>, acc)
           [] text[i] = "]" -> acc
           [] OTHER -> JsonParse(text, i + 1, FALSE, << >>, acc)

JsonUnmarshal(text) == JsonParse(text, 1, FALSE, << >>, << >>)

\* for _, uri := range client.RedirectURIs { if uri == redirectURI { return true } }
ContainsURI(list, redirectURI) == \E j \in 1 .. Len(list) : list[j] = redirectURI

(* MemoryStore *)

MemoryStore_RegisterClient(m, req, clientID) ==
    LET client == [ClientID |-> clientID, RedirectURIs |-> req.RedirectURIs]
    IN  [store |-> [m EXCEPT !.clients = Put(@, clientID, client)], ret |-> Found(client)]

MemoryStore_RegisterClientWithID(m, clientID, redirectURI) ==
    IF Has(m.clients, clientID)
    THEN IF ContainsURI(m.clients[clientID].RedirectURIs, redirectURI)
         THEN m
         ELSE [m EXCEPT !.clients[clientID].RedirectURIs = Append(@, redirectURI)]
    ELSE [m EXCEPT !.clients =
             Put(@, clientID, [ClientID |-> clientID, RedirectURIs |-> <<redirectURI>>])]

MemoryStore_LookupClient(m, clientID) == RowOf(m.clients, clientID)

\* mutant: a registered URI matches every URI it is a prefix of
MemoryStore_ValidateRedirectURI_Prefix(m, clientID, redirectURI) ==
    /\ Has(m.clients, clientID)
    /\ \E j \in 1 .. Len(m.clients[clientID].RedirectURIs) :
           LET uri == m.clients[clientID].RedirectURIs[j]
           IN  /\ Len(uri) <= Len(redirectURI)
               /\ SubSeq(redirectURI, 1, Len(uri)) = uri

MemoryStore_ValidateRedirectURI(m, clientID, redirectURI) ==
    IF ~Has(m.clients, clientID)
    THEN FALSE
    ELSE ContainsURI(m.clients[clientID].RedirectURIs, redirectURI)

(* The SQL backends: the row of table clients holds redirect_uris as JSON text *)

SQLiteStore_LookupClient(d, clientID) ==
    LET row == SqlSelect(d.clients, clientID)
    IN  IF ~row.ok
        THEN NotFound
        ELSE Found([ClientID |-> row.rec.client_id,
                    RedirectURIs |-> JsonUnmarshal(row.rec.redirect_uris)])

SQLiteStore_RegisterClient(d, req, clientID) ==
    LET client == [ClientID |-> clientID, RedirectURIs |-> req.RedirectURIs]
        ins == SqlInsert(d.clients, clientID,
                         [client_id |-> clientID,
                          redirect_uris |-> JsonMarshal(client.RedirectURIs)])
    IN  [store |-> [d EXCEPT !.clients = ins.table],
         ret |-> IF ins.err THEN NotFound ELSE Found(client)]

\* RegisterClientWithID after its LookupClient returned existing: the
\* statement it runs on the table as it is by then
SQLiteStore_RegisterClientWithID_Write(d, existing, clientID, redirectURI) ==
    IF existing.ok
    THEN IF ContainsURI(existing.rec.RedirectURIs, redirectURI)
         THEN d
         ELSE \* UPDATE clients SET redirect_uris = ? WHERE client_id = ?
              IF Has(d.clients, clientID)
              THEN [d EXCEPT !.clients[clientID].redirect_uris =
                       JsonMarshal(Append(existing.rec.RedirectURIs, redirectURI))]
              ELSE d
    ELSE \* INSERT OR IGNORE / ON CONFLICT DO NOTHING
         [d EXCEPT !.clients =
             SqlInsert(@, clientID,
                       [client_id |-> clientID,
                        redirect_uris |-> JsonMarshal(<<redirectURI>>)]).table]

SQLiteStore_RegisterClientWithID(d, clientID, redirectURI) ==
    SQLiteStore_RegisterClientWithID_Write(d, SQLiteStore_LookupClient(d, clientID),
                                           clientID, redirectURI)

SQLiteStore_ValidateRedirectURI(d, clientID, redirectURI) ==
    LET client == SQLiteStore_LookupClient(d, clientID)
    IN  IF ~client.ok
        THEN FALSE
        ELSE ContainsURI(client.rec.RedirectURIs, redirectURI)

(* SpecClients: the registry methods of the Store, called sequentially on   *)
(* both backends.                                                           *)

ClientCall(op, clientID, uri) ==
    [op |-> op, tbl |-> "clients", key |-> clientID, uri |-> uri]

InitClients == Init

\* POST /register -> store.RegisterClient(&req), the client id is generated
RegisterClient ==
    /\ fresh < MaxRegister
    /\ \E req \in RegistrationRequests :
           LET clientID == Token(fresh + 1)
               m == MemoryStore_RegisterClient(ms, req, clientID)
               s == SQLiteStore_RegisterClient(sq, req, clientID)
           IN  /\ ms' = m.store
               /\ sq' = s.store
               /\ fresh' = fresh + 1
               /\ call' = ClientCall("RegisterClient", clientID, << >>)
               /\ res' = [mem |-> m.ret, sql |-> s.ret]
               /\ registered' = Put(registered, clientID,
                                    {req.RedirectURIs[j] : j \in 1 .. Len(req.RedirectURIs)})
    /\ UNCHANGED notClients

RegisterClientWithID ==
    /\ \E clientID \in RegisteredIDs : \E uri \in URIs :
           /\ ms' = MemoryStore_RegisterClientWithID(ms, clientID, uri)
           /\ sq' = SQLiteStore_RegisterClientWithID(sq, clientID, uri)
           /\ call' = ClientCall("RegisterClientWithID", clientID, uri)
           /\ res' = [mem |-> Void, sql |-> Void]
           /\ registered' =
                  Put(registered, clientID,
                      (IF Has(registered, clientID) THEN registered[clientID] ELSE {})
                          \cup {uri})
    /\ UNCHANGED fresh
    /\ UNCHANGED notClients

\* the client ids a caller may name: the registered ones and an unknown one
AnyClientID == RegisteredIDs \cup {Token(n) : n \in 1 .. MaxRegister}
                   \cup {"unknown"}

LookupClient ==
    /\ \E clientID \in AnyClientID :
           /\ call' = ClientCall("LookupClient", clientID, << >>)
           /\ res' = [mem |-> MemoryStore_LookupClient(ms, clientID),
                      sql |-> SQLiteStore_LookupClient(sq, clientID)]
    /\ UNCHANGED <<ms, sq, fresh, registered>>
    /\ UNCHANGED notClients

ValidateRedirectURI ==
    /\ \E clientID \in AnyClientID : \E uri \in URIs :
           /\ call' = ClientCall("ValidateRedirectURI", clientID, uri)
           /\ res' = [mem |-> MemoryStore_ValidateRedirectURI(ms, clientID, uri),
                      sql |-> SQLiteStore_ValidateRedirectURI(sq, clientID, uri)]
    /\ UNCHANGED <<ms, sq, fresh, registered>>
    /\ UNCHANGED notClients

NextClients ==
    \/ RegisterClient
    \/ RegisterClientWithID
    \/ LookupClient
    \/ ValidateRedirectURI

SpecClients == InitClients /\ [][NextClients]_vars

-----------------------------------------------------------------------------
(* Claims on the client registry (SpecClients) *)

\* C10: ValidateRedirectURI(clientID, uri) is true if and only if clientID is
\* registered and uri is, character for character, one of the redirect URIs
\* registered for it: a URI that extends a registered one is rejected.  In
\* both backends.
RedirectURIExact ==
    call.op = "ValidateRedirectURI" =>
        \A b \in Backends :
            res[b] = (Has(registered, call.key) /\ call.uri \in registered[call.key])

\* "cb/" was validated for a client that registered "cb" only, and rejected
RedirectURIExactWitness ==
    /\ call.op = "ValidateRedirectURI"
    /\ Has(registered, call.key)
    /\ registered[call.key] = {BaseURI}
    /\ call.uri = SlashURI
    /\ res = [mem |-> FALSE, sql |-> FALSE]

-----------------------------------------------------------------------------
(* The token records *)

MemoryStore_StoreToken(m, opaque, webexAccessToken, webexRefreshToken, expiresIn, t) ==
    [m EXCEPT !.tokens =
        Put(@, opaque, [OpaqueToken |-> opaque, WebexAccessToken |-> webexAccessToken,
                        WebexRefreshToken |-> webexRefreshToken,
                        ExpiresAt |-> t + expiresIn, CreatedAt |-> t])]

MemoryStore_LookupToken(m, opaqueToken) == RowOf(m.tokens, opaqueToken)

\* mutant: the update writes the record anew, as StoreToken does
MemoryStore_UpdateWebexToken_Restamp(m, opaqueToken, newAccessToken, newRefreshToken, expiresIn, t) ==
    IF Has(m.tokens, opaqueToken)
    THEN MemoryStore_StoreToken(m, opaqueToken, newAccessToken, newRefreshToken,
                                expiresIn, t)
    ELSE m

\* mutant: a record that is missing is written
MemoryStore_UpdateWebexToken_Upsert(m, opaqueToken, newAccessToken, newRefreshToken, expiresIn, t) ==
    IF Has(m.tokens, opaqueToken)
    THEN [m EXCEPT !.tokens[opaqueToken] =
             [@ EXCEPT !.WebexAccessToken = newAccessToken,
                       !.WebexRefreshToken = newRefreshToken,
                       !.ExpiresAt = t + expiresIn]]
    ELSE MemoryStore_StoreToken(m, opaqueToken, newAccessToken, newRefreshToken,
                                expiresIn, t)

MemoryStore_UpdateWebexToken(m, opaqueToken, newAccessToken, newRefreshToken, expiresIn, t) ==
    IF Has(m.tokens, opaqueToken)
    THEN [m EXCEPT !.tokens[opaqueToken] =
             [@ EXCEPT !.WebexAccessToken = newAccessToken,
                       !.WebexRefreshToken = newRefreshToken,
                       !.ExpiresAt = t + expiresIn]]
    ELSE m

\* mutant: the token map is emptied
MemoryStore_RevokeToken_All(m, opaqueToken) == [m EXCEPT !.tokens = EmptyMap]

MemoryStore_RevokeToken(m, opaqueToken) == [m EXCEPT !.tokens = Del(@, opaqueToken)]

SQLiteStore_StoreToken(d, opaque, webexAccessToken, webexRefreshToken, expiresIn, t) ==
    LET ins == SqlInsert(d.tokens, opaque,
                         [OpaqueToken |-> opaque, WebexAccessToken |-> webexAccessToken,
                          WebexRefreshToken |-> webexRefreshToken,
                          ExpiresAt |-> t + expiresIn, CreatedAt |-> t])
    IN  [store |-> [d EXCEPT !.tokens = ins.table], err |-> ins.err]

SQLiteStore_LookupToken(d, opaqueToken) == SqlSelect(d.tokens, opaqueToken)

\* UPDATE tokens SET ... WHERE opaque_token = ? : no row, no change
SQLiteStore_UpdateWebexToken(d, opaqueToken, newAccessToken, newRefreshToken, expiresIn, t) ==
    IF Has(d.tokens, opaqueToken)
    THEN [d EXCEPT !.tokens[opaqueToken] =
             [@ EXCEPT !.WebexAccessToken = newAccessToken,
                       !.WebexRefreshToken = newRefreshToken,
                       !.ExpiresAt = t + expiresIn]]
    ELSE d

SQLiteStore_RevokeToken(d, opaqueToken) == [d EXCEPT !.tokens = SqlDelete(@, opaqueToken)]

-----------------------------------------------------------------------------
(* SpecFlow: the OAuth handlers on the Store that NewStore built.  Every    *)
(* request runs on a goroutine of its own; a handler is cut where it calls  *)
(* the Store, and a Consume of the SQL backend is cut again between its     *)
(* SELECT and its DELETE/COMMIT, as in SpecSqlRace.                         *)

MaxFresh == 4

\* the token pairs the Webex token endpoint issues
MaxWebex == 4

WebexAccessTokens == <<"wa1", "wa2", "wa3", "wa4", "wa5", "wa6">>

WebexRefreshTokens == <<"wr1", "wr2", "wr3", "wr4", "wr5", "wr6">>

\* the PKCE verifiers HandleAuthorize draws, one with every state
Verifiers ==
    <<"ver1", "ver2", "ver3", "ver4", "ver5", "ver6", "ver7", "ver8", "ver9", "ver10">>

\* the authorization code Webex hands to /callback, the state the client chose
WebexCode == "webex-code"

ClientState == "client-state"

\* the lifetime Webex declares for its access token
WebexExpiresIn == 10

ResponseTypes == {"code", "token"}

AuthorizeClientIDs == {"A", "unknown"}

AuthorizeURIs == {BaseURI, SlashURI, << >>}

TokenClientIDs == {"A", "B"}

TokenURIs == {BaseURI, SlashURI, << >>}

Store_ValidateRedirectURI(clientID, redirectURI) ==
    IF backend = "mem"
    THEN MemoryStore_ValidateRedirectURI(ms, clientID, redirectURI)
    ELSE SQLiteStore_ValidateRedirectURI(sq, clientID, redirectURI)

\* the store after the call, for the backend in use
StoreIs(m, d) ==
    IF backend = "mem" THEN ms' = m /\ sq' = sq ELSE sq' = d /\ ms' = ms

\* mutant: the registry is not asked
AuthorizeCheck_NoRegistry(responseType, clientID, redirectURI) ==
    IF responseType # "code" THEN "unsupported_response_type"
    ELSE IF clientID = "" THEN "invalid_request"
    ELSE IF redirectURI = << >> THEN "invalid_request"
    ELSE ""

\* the checks of HandleAuthorize: the error it answers with, "" if none
AuthorizeCheck(responseType, clientID, redirectURI) ==
    IF responseType # "code" THEN "unsupported_response_type"
    ELSE IF clientID = "" THEN "invalid_request"
    ELSE IF redirectURI = << >> THEN "invalid_request"
    ELSE IF ~Store_ValidateRedirectURI(clientID, redirectURI) THEN "invalid_request"
    ELSE ""

\* the server starts with the store of its configuration and one registered client
InitFlow ==
    /\ now = 0
    /\ backend \in Backends
    /\ ms = MemoryStore_RegisterClientWithID(NewMemoryStore, "A", BaseURI)
    /\ sq = SQLiteStore_RegisterClientWithID(NewSQLiteStore, "A", BaseURI)
    /\ registered = Put(EmptyMap, "A", {BaseURI})
    /\ call = [op |-> "New"]
    /\ res = [status |-> 0, error |-> ""]
    /\ stored = [b \in Backends |-> [t \in Tables |-> EmptyMap]]
    /\ uses = [b \in Backends |-> [t \in Tables |-> EmptyMap]]
    /\ g = [i \in Goroutines |-> Idle]
    /\ mu = 0
    /\ wlock = 0
    /\ fresh = 0
    /\ webex = 0
    /\ cache = EmptyMap
    /\ shadow = EmptyMap
    /\ life = Started
    /\ tools = NoTools
    /\ mercury = NoMercury
    /\ notes = NoNotes
    /\ slots = [i \in Requests |-> NoRequest]
    /\ trail = NoTrail

\* call and res hold the last /authorize request while nothing else has happened
Other ==
    /\ call' = [op |-> "other"]
    /\ res' = [status |-> 0, error |-> ""]

\* what a client may send as code_challenge and code_challenge_method
NoChallenge == [code_challenge |-> "", code_challenge_method |-> ""]

\* GET /authorize, the client's state and PKCE parameters taken from the
\* given sets
Authorize(uris, clientStates, challenges) ==
    /\ \E responseType \in ResponseTypes : \E clientID \in AuthorizeClientIDs :
       \E redirectURI \in uris : \E state \in clientStates : \E pkce \in challenges :
           LET error == AuthorizeCheck(responseType, clientID, redirectURI)
               internalState == Token(fresh + 1)
               webexCodeVerifier == Verifiers[fresh + 1]
               pending == [State |-> internalState, ClientID |-> clientID,
                           ClientRedirectURI |-> redirectURI, ClientState |-> state,
                           CodeChallenge |-> pkce.code_challenge,
                           CodeChallengeMethod |-> pkce.code_challenge_method,
                           WebexCodeVerifier |-> webexCodeVerifier, CreatedAt |-> now]
           IN  /\ call' = [op |-> "HandleAuthorize", responseType |-> responseType,
                           clientID |-> clientID, uri |-> redirectURI,
                           before |-> IF backend = "mem" THEN ms.pendingAuths
                                                         ELSE sq.pendingAuths]
               /\ IF error # ""
                  THEN /\ res' = [status |-> 400, error |-> error, body |-> writeJSONError]
                       /\ UNCHANGED <<ms, sq, fresh, trail>>
                  ELSE /\ fresh < MaxFresh
                       /\ fresh' = fresh + 1
                       /\ StoreIs(MemoryStore_StorePendingAuth(ms, pending),
                                  SQLiteStore_StorePendingAuth(sq, pending).store)
                       /\ trail' = [trail EXCEPT !.authorized =
                              Put(@, internalState,
                                  [ClientID |-> clientID, ClientRedirectURI |-> redirectURI,
                                   ClientState |-> state,
                                   WebexCodeVerifier |-> webexCodeVerifier,
                                   CodeChallenge |-> pkce.code_challenge,
                                   passed |-> /\ Has(registered, clientID)
                                              /\ redirectURI \in registered[clientID]])]
                       /\ res' = [status |-> 302, error |-> ""]
    /\ UNCHANGED <<now, backend, slots, webex>>
    /\ UNCHANGED notFlow

\* GET /authorize of a client that sends its state and no PKCE parameters
HandleAuthorize == Authorize(AuthorizeURIs, {ClientState}, {NoChallenge})

\* the response is written: the goroutine keeps the response only; the
\* failures of /callback are written with http.Error, those of /token with
\* writeJSONError
Respond(slot, status, error) ==
    [NoRequest EXCEPT !.kind = slot.kind, !.late = slot.late,
                      !.status = status, !.error = error,
                      !.body = IF error = "" THEN NoRequest.body
                               ELSE IF slot.kind = "callback" THEN http_Error
                               ELSE writeJSONError]

\* what the handler goes on with after Consume returned ret
AfterConsume(slot, ret) ==
    IF ret.ok
    THEN [slot EXCEPT !.pc = "finish", !.row = ret]
    ELSE Respond(slot, 400, IF slot.kind = "callback" THEN "invalid state"
                                                      ELSE "invalid_grant")

\* the request has reached its Consume call: all of it on the in-memory
\* store, its SELECT on the SQL store
EnterConsume(i, slot, tbl) ==
    IF backend = "mem"
    THEN LET c == IF tbl = "pendingAuths"
                  THEN MemoryStore_ConsumePendingAuth(ms, slot.key, now)
                  ELSE MemoryStore_ConsumeAuthCode(ms, slot.key, now)
         IN  /\ ms' = c.store
             /\ sq' = sq
             /\ slots' = [slots EXCEPT ![i] = AfterConsume(slot, c.ret)]
    ELSE LET row == SqlSelect(sq[tbl], slot.key)
         IN  /\ UNCHANGED <<ms, sq>>
             /\ slots' = [slots EXCEPT ![i] =
                    IF row.ok THEN [slot EXCEPT !.pc = "commit", !.row = row]
                              ELSE AfterConsume(slot, NotFound)]

\* GET /callback?code=..&state=.. up to ConsumePendingAuth
HandleCallback(i) ==
    /\ slots[i].pc = "done"
    /\ \E state \in DOMAIN trail.authorized :
           EnterConsume(i, [NoRequest EXCEPT !.kind = "callback", !.key = state],
                        "pendingAuths")
    /\ Other
    /\ UNCHANGED <<now, fresh, webex, backend, trail>>
    /\ UNCHANGED notFlow

\* POST /token, grant_type=authorization_code, up to ConsumeAuthCode, the
\* code_verifier of the form taken from the given set
TokenRequest(i, codeVerifiers) ==
    /\ slots[i].pc = "done"
    /\ \E code \in DOMAIN trail.codeOf : \E clientID \in TokenClientIDs :
       \E redirectURI \in TokenURIs : \E codeVerifier \in codeVerifiers :
           EnterConsume(i, [NoRequest EXCEPT !.kind = "token", !.key = code,
                                             !.clientID = clientID, !.uri = redirectURI,
                                             !.verifier = codeVerifier,
                                             !.late = code \in trail.redeemed],
                        "authCodes")
    /\ Other
    /\ UNCHANGED <<now, fresh, webex, backend, trail>>
    /\ UNCHANGED notFlow

\* POST /token of a client that sends no code_verifier
HandleToken(i) == TokenRequest(i, {""})

\* tx.Exec(DELETE); tx.Commit(); the expiry check
ConsumeCommit(i) ==
    /\ slots[i].pc = "commit"
    /\ LET tbl == IF slots[i].kind = "callback" THEN "pendingAuths" ELSE "authCodes"
       IN  /\ sq' = [sq EXCEPT ![tbl] = SqlDelete(@, slots[i].key)]
           /\ slots' = [slots EXCEPT ![i] =
                  AfterConsume(@, ExpiryCheck(tbl, slots[i].row, now))]
    /\ Other
    /\ UNCHANGED <<now, ms, fresh, webex, backend, trail>>
    /\ UNCHANGED notFlow

(* The redirect back to the client.  A URI is a sequence of characters; a  *)
(* query key is one character, its value is empty when the URI has no "=". *)

\* strings.Index: the first position of ch in str, 0 if there is none
RECURSIVE IndexOf(_, _)
IndexOf(str, ch) ==
    IF str = << >> THEN 0
    ELSE IF Head(str) = ch THEN 1
    ELSE LET rest == IndexOf(Tail(str), ch) IN IF rest = 0 THEN 0 ELSE rest + 1

\* url.Parse: the path and the raw query of a URI
UrlParse(uri) ==
    LET q == IndexOf(uri, "?")
    IN  IF q = 0 THEN [Path |-> uri, RawQuery |-> << >>]
        ELSE [Path |-> SubSeq(uri, 1, q - 1), RawQuery |-> SubSeq(uri, q + 1, Len(uri))]

\* URL.Query(): the keys between the "&" of the raw query, each with its value
RECURSIVE ParseQuery(_)
ParseQuery(raw) ==
    IF raw = << >> THEN EmptyMap
    ELSE LET amp == IndexOf(raw, "&")
             rest == IF amp = 0 THEN << >> ELSE SubSeq(raw, amp + 1, Len(raw))
         IN  IF Head(raw) = "&" THEN ParseQuery(Tail(raw))
             ELSE Put(ParseQuery(rest), Head(raw), "")

\* the order of the keys, as sort.Strings puts them
KeyOrder == <<"code", "q", "r", "state">>

\* Values.Encode: key=value pairs, sorted by key
ValuesEncode(values) ==
    LET keys == SelectSeq(KeyOrder, LAMBDA k : Has(values, k))
    IN  [j \in 1 .. Len(keys) |-> <<keys[j], values[keys[j]]>>]

\* mutant: the state of the redirect is the internal correlation state
CallbackRedirect_InternalState(pending, ourCode) ==
    LET clientRedirect == UrlParse(pending.ClientRedirectURI)
        cq == Put(Put(ParseQuery(clientRedirect.RawQuery), "code", ourCode),
                  "state", pending.State)
    IN  [Path |-> clientRedirect.Path, RawQuery |-> ValuesEncode(cq)]

\* HandleCallback's redirect: cq.Set("code", ..), cq.Set("state", ..) if the
\* client sent one, RawQuery = cq.Encode()
CallbackRedirect(pending, ourCode) ==
    LET clientRedirect == UrlParse(pending.ClientRedirectURI)
        withCode == Put(ParseQuery(clientRedirect.RawQuery), "code", ourCode)
        cq == IF pending.ClientState # "" THEN Put(withCode, "state", pending.ClientState)
              ELSE withCode
    IN  [Path |-> clientRedirect.Path, RawQuery |-> ValuesEncode(cq)]

\* the values the redirect carries in its query
QueryValues(location) == {location.RawQuery[j][2] : j \in 1 .. Len(location.RawQuery)}

\* mutant: the verifier sent to Webex is what the client sent as code_challenge
exchangeWebexCode_Request_Client(code, pending) ==
    [grant_type |-> "authorization_code", code |-> code,
     code_verifier |-> pending.CodeChallenge]

\* the form exchangeWebexCode(webexCode, pending.WebexCodeVerifier) posts to Webex
exchangeWebexCode_Request(code, pending) ==
    [grant_type |-> "authorization_code", code |-> code,
     code_verifier |-> pending.WebexCodeVerifier]

(* What Webex would answer to successive posts of the same form: TRUE for  *)
(* a 200 with tokens.  The handlers post once.                             *)

\* Webex answers the one post
OneAttempt == {<<TRUE>>, <<FALSE>>}

\* mutant: the form is posted again until Webex answers with tokens
PostForm_Retry(answers) == \E j \in DOMAIN answers : answers[j]

\* http.PostForm, once: err or a status other than 200 is the failure returned
PostForm(answers) == answers[1]

\* history: Webex issues the access token now
Mint(accessToken) ==
    notes' = IF notes.on THEN [notes EXCEPT !.at = Put(@, accessToken, now)]
              ELSE notes

\* HandleCallback after ConsumePendingAuth: exchangeWebexCode, StoreAuthCode,
\* redirect; Webex answers as one of upstream
CallbackIssue(i, upstream) ==
    /\ slots[i].pc = "finish"
    /\ slots[i].kind = "callback"
    /\ \E answers \in upstream :
        LET exchanged == PostForm(answers) IN
        /\ call' = [op |-> "HandleCallback", webexCode |-> WebexCode,
                    pending |-> slots[i].row.rec, answers |-> answers,
                    before |-> IF backend = "mem" THEN ms.authCodes ELSE sq.authCodes,
                    upstream |-> exchangeWebexCode_Request(WebexCode, slots[i].row.rec)]
        /\ IF ~exchanged
           THEN /\ slots' = [slots EXCEPT ![i] = Respond(@, 500, "exchange failed")]
                /\ res' = [status |-> 500, error |-> "exchange failed", values |-> {}]
                /\ UNCHANGED <<ms, sq, fresh, webex, trail, notes>>
           ELSE LET pending == slots[i].row.rec
                    webexTokens == [AccessToken |-> WebexAccessTokens[webex + 1],
                                    RefreshToken |-> WebexRefreshTokens[webex + 1],
                                    ExpiresIn |-> WebexExpiresIn]
                    ourCode == Token(fresh + 1)
                    record == [Code |-> ourCode, ClientID |-> pending.ClientID,
                               RedirectURI |-> pending.ClientRedirectURI,
                               WebexAccessToken |-> webexTokens.AccessToken,
                               WebexRefreshToken |-> webexTokens.RefreshToken,
                               WebexExpiresIn |-> webexTokens.ExpiresIn,
                               CreatedAt |-> now, ExpiresAt |-> now + AuthCodeTTL]
                IN  /\ fresh < MaxFresh
                    /\ webex < MaxWebex
                    /\ fresh' = fresh + 1
                    /\ webex' = webex + 1
                    /\ Mint(webexTokens.AccessToken)
                    /\ StoreIs(MemoryStore_StoreAuthCode(ms, record),
                               SQLiteStore_StoreAuthCode(sq, record).store)
                    /\ trail' = [trail EXCEPT !.codeOf = Put(@, ourCode, pending.State)]
                    /\ slots' = [slots EXCEPT ![i] = Respond(@, 302, "")]
                    \* the redirect to the client: ?code=ourCode&state=ClientState
                    /\ res' = [status |-> 302, error |-> "",
                               location |-> CallbackRedirect(pending, ourCode),
                               values |-> QueryValues(CallbackRedirect(pending, ourCode))]
    /\ UNCHANGED <<now, backend>>
    /\ UNCHANGED <<stored, uses, raceVars, registered, cache, shadow, life, tools, mercury>>

\* HandleCallback after ConsumePendingAuth
HandleCallback_Issue(i) == CallbackIssue(i, OneAttempt)

TokensNow == IF backend = "mem" THEN ms.tokens ELSE sq.tokens

\* mutant: the redirect_uri of the request is not compared
ExchangeMismatch_ClientOnly(record, clientID, redirectURI) ==
    record.ClientID # clientID

\* the two checks of handleAuthCodeExchange on the consumed record
ExchangeMismatch(record, clientID, redirectURI) ==
    \/ record.ClientID # clientID
    \/ (redirectURI # << >> /\ record.RedirectURI # redirectURI)

\* mutant: the response carries the Webex access token
ExchangeResponse_Upstream(opaqueToken, record) ==
    [access_token |-> record.WebexAccessToken, token_type |-> "Bearer",
     expires_in |-> record.WebexExpiresIn]

\* the JSON body of a successful exchange
ExchangeResponse(opaqueToken, record) ==
    [access_token |-> opaqueToken, token_type |-> "Bearer",
     expires_in |-> record.WebexExpiresIn]

\* mutant: the code_verifier of the form is compared with the record's
ExchangeError_PKCE(record, clientID, redirectURI, codeVerifier) ==
    IF ExchangeMismatch(record, clientID, redirectURI) THEN "invalid_grant"
    ELSE IF codeVerifier # "" THEN "invalid_grant"
    ELSE ""

\* what handleAuthCodeExchange answers a consumed code with, "" to go on;
\* codeVerifier is read from the form and dropped (_ = codeVerifier)
ExchangeError(record, clientID, redirectURI, codeVerifier) ==
    IF ExchangeMismatch(record, clientID, redirectURI) THEN "invalid_grant" ELSE ""

\* handleAuthCodeExchange after ConsumeAuthCode, for the request in slot:
\* the checks, StoreToken, the answer
AuthCodeExchange(i, slot) ==
    LET record == slot.row.rec
        opaqueToken == Token(fresh + 1)
        m == MemoryStore_StoreToken(ms, opaqueToken, record.WebexAccessToken,
                                    record.WebexRefreshToken, record.WebexExpiresIn, now)
        d == SQLiteStore_StoreToken(sq, opaqueToken, record.WebexAccessToken,
                                    record.WebexRefreshToken, record.WebexExpiresIn, now)
        body == ExchangeResponse(opaqueToken, record)
        error == ExchangeError(record, slot.clientID, slot.uri, slot.verifier)
    IN  IF error # ""
        THEN /\ slots' = [slots EXCEPT ![i] = Respond(slot, 400, error)]
             /\ res' = [status |-> 400, error |-> error, values |-> {}]
             /\ UNCHANGED <<ms, sq, fresh, trail>>
        ELSE /\ fresh < MaxFresh
             /\ fresh' = fresh + 1
             /\ StoreIs(m, d.store)
             /\ trail' = [trail EXCEPT
                    !.tokenOf = Put(@, opaqueToken,
                                    [code |-> slot.key,
                                     state |-> trail.codeOf[slot.key],
                                     late |-> slot.late]),
                    !.redeemed = @ \cup {slot.key}]
             /\ IF backend = "sql" /\ d.err
                THEN /\ slots' = [slots EXCEPT ![i] = Respond(slot, 500, "server_error")]
                     /\ res' = [status |-> 500, error |-> "server_error",
                                values |-> {}]
                ELSE /\ slots' = [slots EXCEPT ![i] = Respond(slot, 200, "")]
                     /\ res' = [status |-> 200, error |-> "", body |-> body,
                                values |-> {body.access_token}]

\* handleAuthCodeExchange after ConsumeAuthCode
handleAuthCodeExchange(i) ==
    /\ slots[i].pc = "finish"
    /\ slots[i].kind = "token"
    /\ call' = [op |-> "handleAuthCodeExchange", clientID |-> slots[i].clientID,
                uri |-> slots[i].uri, codeVerifier |-> slots[i].verifier,
                record |-> slots[i].row.rec, before |-> TokensNow]
    /\ AuthCodeExchange(i, slots[i])
    /\ UNCHANGED <<now, webex, backend>>
    /\ UNCHANGED notFlow

NextFlow ==
    \/ HandleAuthorize
    \/ \E i \in Requests : HandleCallback(i)
    \/ \E i \in Requests : HandleToken(i)
    \/ \E i \in Requests : ConsumeCommit(i)
    \/ \E i \in Requests : HandleCallback_Issue(i)
    \/ \E i \in Requests : handleAuthCodeExchange(i)

SpecFlow == InitFlow /\ [][NextFlow]_vars

-----------------------------------------------------------------------------
(* The refresh_token grant, the auth middleware and the client cache *)

\* NewClientCache(15*time.Minute, ..)
CacheTTL == 15

\* time.Now().Add(5 * time.Minute).After(record.ExpiresAt)
RefreshWindow == 5

ServerURL == "https://mcp.example"

\* mutant: every token has the same hash
tokenHash_Const(token) == <<"sha256", "">>

\* tokenHash: SHA-256 in hex; different tokens have different hashes
tokenHash(token) == <<"sha256", token>>

BuildWWWAuthenticate(serverURL) ==
    <<"Bearer resource_metadata=\"", serverURL, "/.well-known/oauth-protected-resource",
      "\"">>

(* An Authorization header is a sequence of pieces: the scheme with its     *)
(* blank ("Bearer "), then blanks (" ") and at most one word.               *)

RECURSIVE TrimSpace(_)
TrimSpace(str) ==
    IF str = << >> THEN << >>
    ELSE IF Head(str) = " " THEN TrimSpace(Tail(str))
    ELSE IF str[Len(str)] = " " THEN TrimSpace(SubSeq(str, 1, Len(str) - 1))
    ELSE str

\* mutant: the scheme is not looked at
SplitBearerToken_AnyScheme(authHeader) ==
    LET token == TrimSpace(Tail(authHeader))
    IN  IF token = << >> THEN [ok |-> FALSE, token |-> ""]
        ELSE [ok |-> TRUE, token |-> token[1]]

SplitBearerToken(authHeader) ==
    IF authHeader[1] # "Bearer "
    THEN [ok |-> FALSE, token |-> ""]
    ELSE LET token == TrimSpace(Tail(authHeader))
         IN  IF token = << >> THEN [ok |-> FALSE, token |-> ""]
             ELSE [ok |-> TRUE, token |-> token[1]]

\* mutant: the refresh waits until the token has expired
NearExpiry_Late(record, t) == t > record.ExpiresAt

NearExpiry(record, t) == t + RefreshWindow > record.ExpiresAt

\* mutant: an entry is returned whatever its age
ClientCache_GetOrCreate_NoExpiry(c, accessToken, t) ==
    LET key == tokenHash(accessToken)
        client == [builtOn |-> accessToken, madeAt |-> t]
    IN  IF Has(c, key)
        THEN [cache |-> c, client |-> c[key].client]
        ELSE [cache |-> Put(c, key, [client |-> client, expiresAt |-> t + CacheTTL]),
              client |-> client]

\* a client is the token webex.NewClient was given and, as the identity of
\* the object, the time it was made
ClientCache_GetOrCreate(c, accessToken, t) ==
    LET key == tokenHash(accessToken)
        client == [builtOn |-> accessToken, madeAt |-> t]
    IN  IF Has(c, key) /\ t < c[key].expiresAt
        THEN [cache |-> c, client |-> c[key].client]
        ELSE [cache |-> Put(c, key, [client |-> client, expiresAt |-> t + CacheTTL]),
              client |-> client]

ClientCache_Evict(c, accessToken) == Del(c, tokenHash(accessToken))

ClientCache_cleanup(c, t) == [k \in {x \in DOMAIN c : ~(t > c[x].expiresAt)} |-> c[k]]

Store_LookupToken(opaqueToken) ==
    IF backend = "mem" THEN MemoryStore_LookupToken(ms, opaqueToken)
                       ELSE SQLiteStore_LookupToken(sq, opaqueToken)

\* the store after UpdateWebexToken, for the backend in use
Store_UpdateWebexToken(opaqueToken, tokens) ==
    StoreIs(MemoryStore_UpdateWebexToken(ms, opaqueToken, tokens.AccessToken,
                                         tokens.RefreshToken, tokens.ExpiresIn, now),
            SQLiteStore_UpdateWebexToken(sq, opaqueToken, tokens.AccessToken,
                                         tokens.RefreshToken, tokens.ExpiresIn, now))

\* the next answer of Webex's /v1/access_token
NextWebexTokens ==
    [AccessToken |-> WebexAccessTokens[webex + 1],
     RefreshToken |-> WebexRefreshTokens[webex + 1], ExpiresIn |-> WebexExpiresIn]

\* history: the access token an UpdateWebexToken(opaqueToken, ..) overwrites
Replaced(opaqueToken) ==
    IF Has(TokensNow, opaqueToken) THEN {TokensNow[opaqueToken].WebexAccessToken} ELSE {}

\* the opaque tokens a client may present: every one issued, and one made up
PresentedTokens == (DOMAIN trail.tokenOf) \cup {"bogus"}

\* POST /token, grant_type=refresh_token; Webex answers as one of upstream
RefreshGrant(upstream) ==
    /\ \E refreshToken \in PresentedTokens \cup {""} : \E answers \in upstream :
           LET look == Store_LookupToken(refreshToken)
               newTokens == NextWebexTokens
               refreshedOK == PostForm(answers)
           IN  \* no form is posted for a token that is missing or unknown
               /\ call' = [op |-> "handleRefreshToken", refreshToken |-> refreshToken,
                           answers |-> IF refreshToken # "" /\ look.ok THEN answers
                                       ELSE << >>,
                           before |-> TokensNow]
               /\ IF refreshToken = ""
                  THEN /\ res' = [status |-> 400, error |-> "invalid_request", values |-> {}]
                       /\ UNCHANGED <<ms, sq, webex, trail, notes>>
                  ELSE IF ~look.ok \/ ~refreshedOK
                  THEN /\ res' = [status |-> 400, error |-> "invalid_grant", values |-> {}]
                       /\ UNCHANGED <<ms, sq, webex, trail, notes>>
                  ELSE /\ webex < MaxWebex
                       /\ webex' = webex + 1
                       /\ Mint(newTokens.AccessToken)
                       /\ Store_UpdateWebexToken(refreshToken, newTokens)
                       /\ trail' = [trail EXCEPT !.replaced = @ \cup Replaced(refreshToken)]
                       /\ res' = [status |-> 200, error |-> "",
                                  body |-> [access_token |-> refreshToken,
                                            token_type |-> "Bearer",
                                            expires_in |-> newTokens.ExpiresIn],
                                  values |-> {refreshToken}]
    /\ UNCHANGED <<now, fresh, backend, slots>>
    /\ UNCHANGED <<stored, uses, raceVars, registered, shadow, life, tools, mercury>>
    /\ UNCHANGED cache

\* POST /token, grant_type=refresh_token
handleRefreshToken == RefreshGrant(OneAttempt)

\* the *TokenRecord a protected request holds: with the in-memory store it is
\* the record of the map itself, with a SQL store the row as it was scanned
Rec(i) ==
    IF backend = "mem" /\ Has(ms.tokens, slots[i].key)
    THEN ms.tokens[slots[i].key]
    ELSE slots[i].row.rec

\* Store.RevokeToken
RevokeToken ==
    /\ \E opaqueToken \in DOMAIN TokensNow :
           /\ StoreIs(MemoryStore_RevokeToken(ms, opaqueToken),
                      SQLiteStore_RevokeToken(sq, opaqueToken))
           /\ trail' = [trail EXCEPT !.revoked = @ \cup {opaqueToken}]
           \* a request that holds the record keeps it as it is now
           /\ slots' = [i \in DOMAIN slots |->
                  IF slots[i].kind = "mw" /\ slots[i].pc # "done"
                         /\ slots[i].key = opaqueToken
                  THEN [slots[i] EXCEPT !.row = Found(Rec(i))]
                  ELSE slots[i]]
           /\ call' = [op |-> "RevokeToken", key |-> opaqueToken]
           /\ res' = [status |-> 0, error |-> ""]
    /\ UNCHANGED <<now, fresh, webex, backend, cache>>
    /\ UNCHANGED notSession

Headers ==
    {<< >>, <<"Bearer ">>, <<"Bearer ", " ">>}
        \cup {<<"Basic ", t>> : t \in DOMAIN trail.tokenOf}
        \cup {<<"Bearer ", t>> : t \in PresentedTokens}

\* sendUnauthorized
Unauthorized == 
    [status |-> 401, error |-> "invalid_token", served |-> FALSE,
     www |-> BuildWWWAuthenticate(ServerURL)]

WrapCall(slot) ==
    [op |-> "Wrap", hdr |-> slot.hdr, at |-> slot.at, found |-> slot.found,
     stale |-> slot.stale, refreshed |-> slot.refreshed, issued |-> slot.issued]

\* a protected request arrives with one of the given headers: the header,
\* LookupToken, the expiry check
WrapRequest(i, headers) ==
    /\ slots[i].pc = "done"
    /\ \E authHeader \in headers :
           LET split == IF authHeader = << >> THEN [ok |-> FALSE, token |-> ""]
                                              ELSE SplitBearerToken(authHeader)
               look == IF split.ok THEN Store_LookupToken(split.token) ELSE NotFound
               slot == [NoRequest EXCEPT !.kind = "mw", !.hdr = authHeader,
                                         !.key = split.token, !.at = now,
                                         !.found = look, !.row = look,
                                         !.stale = IF look.ok THEN trail.replaced ELSE {}]
           IN  IF ~look.ok
               THEN /\ slots' = [slots EXCEPT ![i] = NoRequest]
                    /\ call' = [WrapCall(slot) EXCEPT !.at = 0]
                    /\ res' = Unauthorized
               ELSE /\ slots' = [slots EXCEPT ![i] =
                           [slot EXCEPT !.tok = look.rec.WebexAccessToken,
                                        !.pc = IF NearExpiry(look.rec, now)
                                               THEN "refresh" ELSE "client"]]
                    /\ Other
    /\ UNCHANGED <<now, ms, sq, fresh, webex, backend, trail, cache>>
    /\ UNCHANGED notSession

Wrap(i) == WrapRequest(i, Headers)

\* mutant: the refreshed request goes on with the access token it looked up
Adopt_Old(tok, newToken) == tok

\* webexAccessToken = newToken
Adopt(tok, newToken) == newToken

\* RefreshWebexTokenForRecord: refreshWebexToken, UpdateWebexToken
WrapRefresh(i) ==
    /\ slots[i].pc = "refresh"
    /\ \E refreshedOK \in BOOLEAN :
           LET newTokens == NextWebexTokens
           IN  IF ~refreshedOK
               THEN /\ slots' = [slots EXCEPT ![i] = NoRequest]
                    /\ call' = WrapCall(slots[i])
                    /\ res' = Unauthorized
                    /\ UNCHANGED <<ms, sq, webex, trail, notes>>
               ELSE /\ webex < MaxWebex
                    /\ webex' = webex + 1
                    /\ Mint(newTokens.AccessToken)
                    /\ Store_UpdateWebexToken(Rec(i).OpaqueToken, newTokens)
                    /\ trail' = [trail EXCEPT
                           !.replaced = @ \cup Replaced(Rec(i).OpaqueToken)]
                    /\ slots' = [slots EXCEPT ![i] =
                           [@ EXCEPT !.pc = "evict",
                                     !.tok = Adopt(@, newTokens.AccessToken),
                                     !.refreshed = TRUE,
                                     !.issued = newTokens.AccessToken]]
                    /\ Other
    /\ UNCHANGED <<now, fresh, backend, cache>>
    /\ UNCHANGED <<stored, uses, raceVars, registered, shadow, life, tools, mercury>>

\* am.clientCache.Evict(record.WebexAccessToken)
WrapEvict(i) ==
    /\ slots[i].pc = "evict"
    /\ cache' = ClientCache_Evict(cache, Rec(i).WebexAccessToken)
    /\ slots' = [slots EXCEPT ![i] = [@ EXCEPT !.pc = "client"]]
    /\ Other
    /\ UNCHANGED <<now, ms, sq, fresh, webex, backend, trail>>
    /\ UNCHANGED notSession

\* GetOrCreate, then next.ServeHTTP with the client and the token in the context
WrapServe(i) ==
    /\ slots[i].pc = "client"
    /\ LET got == ClientCache_GetOrCreate(cache, slots[i].tok, now)
       IN  /\ cache' = got.cache
           /\ call' = WrapCall(slots[i])
           /\ res' = [status |-> 200, error |-> "", served |-> TRUE,
                      ctxToken |-> slots[i].tok, client |-> got.client]
    /\ slots' = [slots EXCEPT ![i] = NoRequest]
    /\ UNCHANGED <<now, ms, sq, fresh, webex, backend, trail>>
    /\ UNCHANGED notSession

-----------------------------------------------------------------------------
(* SpecSession: the server from /callback on, serving one request at a     *)
(* time while the clock runs and the sweepers tick.  It starts in the       *)
(* middle of its life:                                                      *)
(* one client holds the opaque token gen1, a second round trip has got as   *)
(* far as its authorization code code1, a third as far as its PendingAuth   *)
(* state2.                                                                  *)

Solo == {1}

SessionStart(m0, d0) ==
    LET pending == [State |-> "state2", ClientID |-> "A", ClientRedirectURI |-> BaseURI,
                    ClientState |-> ClientState, WebexCodeVerifier |-> Verifiers[2],
                    CreatedAt |-> 0]
        record == [Code |-> "code1", ClientID |-> "A", RedirectURI |-> BaseURI,
                   WebexAccessToken |-> WebexAccessTokens[2],
                   WebexRefreshToken |-> WebexRefreshTokens[2],
                   WebexExpiresIn |-> WebexExpiresIn,
                   CreatedAt |-> 0, ExpiresAt |-> AuthCodeTTL]
    IN  [mem |-> MemoryStore_StoreAuthCode(
                     MemoryStore_StorePendingAuth(
                         MemoryStore_StoreToken(m0, "gen1", WebexAccessTokens[1],
                                                WebexRefreshTokens[1], WebexExpiresIn, 0),
                         pending),
                     record),
         sql |-> SQLiteStore_StoreAuthCode(
                     SQLiteStore_StorePendingAuth(
                         SQLiteStore_StoreToken(d0, "gen1", WebexAccessTokens[1],
                                                WebexRefreshTokens[1], WebexExpiresIn,
                                                0).store,
                         pending).store,
                     record).store]

\* the state of InitSession but for the history of the times of issue
InitSessionCore ==
    /\ now = 0
    /\ backend \in Backends
    /\ LET start == SessionStart(
                        MemoryStore_RegisterClientWithID(NewMemoryStore, "A", BaseURI),
                        SQLiteStore_RegisterClientWithID(NewSQLiteStore, "A", BaseURI))
       IN  /\ ms = IF backend = "mem" THEN start.mem ELSE NewMemoryStore
           /\ sq = IF backend = "sql" THEN start.sql ELSE NewSQLiteStore
    /\ registered = Put(EmptyMap, "A", {BaseURI})
    /\ fresh = 1
    /\ webex = 2
    /\ trail = [NoTrail EXCEPT
           !.authorized = [x \in {"state2", "state1", "state0"} |->
                              [ClientID |-> "A", ClientRedirectURI |-> BaseURI,
                               passed |-> TRUE]],
           !.codeOf = Put(Put(EmptyMap, "code1", "state1"), "code0", "state0"),
           !.tokenOf = Put(EmptyMap, "gen1",
                           [code |-> "code0", state |-> "state0", late |-> FALSE]),
           !.redeemed = {"code0"}]
    /\ call = [op |-> "New"]
    /\ res = [status |-> 0, error |-> ""]
    /\ cache = EmptyMap
    /\ shadow = EmptyMap
    /\ life = Started
    /\ tools = NoTools
    /\ mercury = NoMercury
    /\ slots = [i \in Requests |-> NoRequest]
    /\ stored = [b \in Backends |-> [t \in Tables |-> EmptyMap]]
    /\ uses = [b \in Backends |-> [t \in Tables |-> EmptyMap]]
    /\ g = [i \in Goroutines |-> Idle]
    /\ mu = 0
    /\ wlock = 0

InitSession ==
    /\ InitSessionCore
    /\ notes = NoNotes

SessionTick ==
    /\ now + TickStep <= MaxTime
    /\ now' = now + TickStep
    /\ Other
    /\ UNCHANGED <<ms, sq, fresh, webex, backend, slots, trail, cache>>
    /\ UNCHANGED notSession

\* the tables of the backend in use
StoreNow == IF backend = "mem" THEN ms ELSE sq

\* the Store's sweeper ticks
Sweep ==
    /\ call' = [op |-> "cleanup", before |-> StoreNow]
    /\ res' = [status |-> 0, error |-> ""]
    /\ StoreIs(MemoryStore_cleanup(ms, now), SQLiteStore_cleanup(sq, now))
    /\ UNCHANGED <<now, fresh, webex, backend, slots, trail, cache>>
    /\ UNCHANGED notSession

\* the ClientCache's sweeper ticks
CacheCleanup ==
    /\ cache' = ClientCache_cleanup(cache, now)
    /\ Other
    /\ UNCHANGED <<now, ms, sq, fresh, webex, backend, slots, trail>>
    /\ UNCHANGED notSession

NextSession ==
    \/ SessionTick
    \/ Sweep
    \/ \E i \in Solo : HandleCallback(i)
    \/ \E i \in Solo : HandleToken(i)
    \/ \E i \in Solo : ConsumeCommit(i)
    \/ \E i \in Solo : HandleCallback_Issue(i)
    \/ \E i \in Solo : handleAuthCodeExchange(i)
    \/ handleRefreshToken
    \/ RevokeToken

SpecSession == InitSession /\ [][NextSession]_vars

(* SpecGate: the same server seen from /mcp: protected requests, one at a   *)
(* time, pass the middleware and the client cache while the clock runs,     *)
(* clients refresh their tokens and tokens are revoked.                     *)
NextGate ==
    \/ SessionTick
    \/ CacheCleanup
    \/ handleRefreshToken
    \/ RevokeToken
    \/ \E i \in Solo : Wrap(i)
    \/ \E i \in Solo : WrapRefresh(i)
    \/ \E i \in Solo : WrapEvict(i)
    \/ \E i \in Solo : WrapServe(i)

SpecGate == InitSession /\ [][NextGate]_vars

(* SpecRefreshRace: protected requests on goroutines of their own, each cut *)
(* where it calls the Store, Webex or the client cache, running against     *)
(* each other and against refresh_token grants while the clock runs.        *)
NextRefreshRace ==
    \/ SessionTick
    \/ handleRefreshToken
    \/ \E i \in Requests : Wrap(i)
    \/ \E i \in Requests : WrapRefresh(i)
    \/ \E i \in Requests : WrapEvict(i)
    \/ \E i \in Requests : WrapServe(i)

SpecRefreshRace == InitSession /\ [][NextRefreshRace]_vars

-----------------------------------------------------------------------------
(* SpecSweep: the Store contract twice over.  Every Store and Consume call  *)
(* is made on a store whose sweeper runs (ms, sq) and on a store of the     *)
(* same backend whose sweeper never runs (shadow), from the same state of   *)
(* the clock; both answers are kept.                                        *)

NoAnswer == [mem |-> Void, sql |-> Void, plain |-> [mem |-> Void, sql |-> Void]]

InitSweep ==
    /\ now = 0
    /\ ms = NewMemoryStore
    /\ sq = NewSQLiteStore
    /\ shadow = [mem |-> NewMemoryStore, sql |-> NewSQLiteStore]
    /\ life = Started
    /\ tools = NoTools
    /\ mercury = NoMercury
    /\ notes = NoNotes
    /\ call = [op |-> "New"]
    /\ res = NoAnswer
    /\ stored = [b \in Backends |-> [t \in Tables |-> EmptyMap]]
    /\ uses = [b \in Backends |-> [t \in Tables |-> EmptyMap]]
    /\ g = [i \in Goroutines |-> Idle]
    /\ mu = 0
    /\ wlock = 0
    /\ fresh = 0
    /\ registered = EmptyMap
    /\ backend = "mem"
    /\ slots = [i \in Requests |-> NoRequest]
    /\ trail = NoTrail
    /\ cache = EmptyMap
    /\ webex = 0

SweepTick ==
    /\ now + TickStep <= MaxTime
    /\ now' = now + TickStep
    /\ call' = [op |-> "Tick"]
    /\ res' = NoAnswer
    /\ UNCHANGED <<ms, sq, shadow>>
    /\ UNCHANGED notSweep

SweepStoreAuthCode ==
    \E record \in {r \in AuthCodeInputs(now) : r.ClientID = "A"} :
        /\ ms' = MemoryStore_StoreAuthCode(ms, record)
        /\ sq' = SQLiteStore_StoreAuthCode(sq, record).store
        /\ shadow' = [mem |-> MemoryStore_StoreAuthCode(shadow.mem, record),
                      sql |-> SQLiteStore_StoreAuthCode(shadow.sql, record).store]
        /\ call' = [op |-> "StoreAuthCode", key |-> record.Code]
        /\ res' = NoAnswer
        /\ UNCHANGED now
        /\ UNCHANGED notSweep

SweepConsumeAuthCode ==
    \E code \in Codes :
        LET m == MemoryStore_ConsumeAuthCode(ms, code, now)
            s == SQLiteStore_ConsumeAuthCode(sq, code, now)
            pm == MemoryStore_ConsumeAuthCode(shadow.mem, code, now)
            ps == SQLiteStore_ConsumeAuthCode(shadow.sql, code, now)
        IN  /\ ms' = m.store
            /\ sq' = s.store
            /\ shadow' = [mem |-> pm.store, sql |-> ps.store]
            /\ call' = [op |-> "ConsumeAuthCode", key |-> code]
            /\ res' = [mem |-> m.ret, sql |-> s.ret,
                       plain |-> [mem |-> pm.ret, sql |-> ps.ret]]
            /\ UNCHANGED now
            /\ UNCHANGED notSweep

SweepStorePendingAuth ==
    \E pending \in PendingAuthInputs(now) :
        /\ ms' = MemoryStore_StorePendingAuth(ms, pending)
        /\ sq' = SQLiteStore_StorePendingAuth(sq, pending).store
        /\ shadow' = [mem |-> MemoryStore_StorePendingAuth(shadow.mem, pending),
                      sql |-> SQLiteStore_StorePendingAuth(shadow.sql, pending).store]
        /\ call' = [op |-> "StorePendingAuth", key |-> pending.State]
        /\ res' = NoAnswer
        /\ UNCHANGED now
        /\ UNCHANGED notSweep

SweepConsumePendingAuth ==
    \E state \in States :
        LET m == MemoryStore_ConsumePendingAuth(ms, state, now)
            s == SQLiteStore_ConsumePendingAuth(sq, state, now)
            pm == MemoryStore_ConsumePendingAuth(shadow.mem, state, now)
            ps == SQLiteStore_ConsumePendingAuth(shadow.sql, state, now)
        IN  /\ ms' = m.store
            /\ sq' = s.store
            /\ shadow' = [mem |-> pm.store, sql |-> ps.store]
            /\ call' = [op |-> "ConsumePendingAuth", key |-> state]
            /\ res' = [mem |-> m.ret, sql |-> s.ret,
                       plain |-> [mem |-> pm.ret, sql |-> ps.ret]]
            /\ UNCHANGED now
            /\ UNCHANGED notSweep

\* the sweeper's ticker fires, where there is a sweeper
SweepCleanup ==
    /\ ms' = MemoryStore_cleanup(ms, now)
    /\ sq' = SQLiteStore_cleanup(sq, now)
    /\ call' = [op |-> "cleanup"]
    /\ res' = NoAnswer
    /\ UNCHANGED <<now, shadow>>
    /\ UNCHANGED notSweep

NextSweep ==
    \/ SweepTick
    \/ SweepStoreAuthCode
    \/ SweepConsumeAuthCode
    \/ SweepStorePendingAuth
    \/ SweepConsumePendingAuth
    \/ SweepCleanup

SpecSweep == InitSweep /\ [][NextSweep]_vars

-----------------------------------------------------------------------------
(* Claims on the OAuth flow (SpecFlow) *)

PendingAuthsNow == IF backend = "mem" THEN ms.pendingAuths ELSE sq.pendingAuths

FlowAtMostOnce ==
    \A state \in DOMAIN trail.authorized :
        /\ Cardinality({c \in DOMAIN trail.codeOf : trail.codeOf[c] = state}) <= 1
        /\ Cardinality({t \in DOMAIN trail.tokenOf : trail.tokenOf[t].state = state}) <= 1

ExchangeChecks ==
    call.op = "handleAuthCodeExchange" =>
        IF \/ call.clientID # call.record.ClientID
           \/ (call.uri # << >> /\ call.uri # call.record.RedirectURI)
        THEN /\ res.status = 400
             /\ res.error = "invalid_grant"
             /\ TokensNow = call.before
        ELSE /\ res.status = 200
             /\ Cardinality(DOMAIN TokensNow) = Cardinality(DOMAIN call.before) + 1

\* the right client redeemed its code with a redirect URI that extends its own
ExchangeChecksWitness ==
    /\ call.op = "handleAuthCodeExchange"
    /\ call.clientID = call.record.ClientID
    /\ call.record.RedirectURI = BaseURI
    /\ call.uri = SlashURI
    /\ res.error = "invalid_grant"
    /\ TokensNow = call.before

-----------------------------------------------------------------------------
(* Claims on the running server (SpecSession, SpecGate) *)

\* C11: a successful refresh_token grant for the opaque token T answers with
\* access_token = T, leaves the set of opaque tokens of the store as it was,
\* changes nothing of T's record but its Webex access token, Webex refresh
\* token and expiry, and leaves every other TokenRecord as it was.
RefreshKeepsIdentity ==
    (call.op = "handleRefreshToken" /\ res.status = 200) =>
        LET T == call.refreshToken
        IN  /\ res.body.access_token = T
            /\ DOMAIN TokensNow = DOMAIN call.before
            /\ \A t \in DOMAIN TokensNow \ {T} : TokensNow[t] = call.before[t]
            /\ Has(TokensNow, T)
            /\ [TokensNow[T] EXCEPT
                    !.WebexAccessToken = call.before[T].WebexAccessToken,
                    !.WebexRefreshToken = call.before[T].WebexRefreshToken,
                    !.ExpiresAt = call.before[T].ExpiresAt] = call.before[T]

\* a token was refreshed some time after it was issued, next to a second one
RefreshKeepsIdentityWitness ==
    /\ call.op = "handleRefreshToken"
    /\ res.status = 200
    /\ Cardinality(DOMAIN TokensNow) >= 2
    /\ TokensNow[call.refreshToken].WebexAccessToken
           # call.before[call.refreshToken].WebexAccessToken
    /\ TokensNow[call.refreshToken].WebexRefreshToken
           # call.before[call.refreshToken].WebexRefreshToken
    /\ TokensNow[call.refreshToken].ExpiresAt > call.before[call.refreshToken].ExpiresAt
    /\ TokensNow[call.refreshToken].CreatedAt < now

\* what Webex hands to this server: access tokens, refresh tokens, the
\* authorization code, and the PKCE verifiers this server sends to Webex
UpstreamSecrets ==
    {WebexAccessTokens[n] : n \in DOMAIN WebexAccessTokens}
        \cup {WebexRefreshTokens[n] : n \in DOMAIN WebexRefreshTokens}
        \cup {Verifiers[n] : n \in DOMAIN Verifiers}
        \cup {WebexCode}

\* C12: no value placed in a /callback redirect or in a /token response, of
\* the authorization_code or of the refresh_token grant, is a Webex access
\* token, a Webex refresh token, the Webex authorization code or a PKCE
\* verifier of the upstream leg; the client receives only codes and opaque
\* tokens generated by this server, and its own state.
NoUpstreamLeak ==
    call.op \in {"HandleCallback", "handleAuthCodeExchange", "handleRefreshToken"} =>
        /\ res.values \cap UpstreamSecrets = {}
        /\ res.values \subseteq
               {GeneratedIDs[n] : n \in DOMAIN GeneratedIDs} \cup {ClientState}

\* a token whose code came from a /callback of this session was refreshed:
\* the redirect, the exchange and the refresh have all answered
NoUpstreamLeakWitness ==
    /\ call.op = "handleRefreshToken"
    /\ res.status = 200
    /\ res.values = {call.refreshToken}
    /\ trail.tokenOf[call.refreshToken].code \notin {"code0", "code1"}
    /\ TokensNow[call.refreshToken].WebexAccessToken \in UpstreamSecrets

\* C14: a successful authorization_code exchange made d after the /callback
\* that got a lifetime L from Webex answers expires_in = L - d, and the
\* TokenRecord it stores expires when the Webex token does, L after the
\* /callback.
ExpiresInRemaining ==
    (call.op = "handleAuthCodeExchange" /\ res.status = 200) =>
        LET L == call.record.WebexExpiresIn
            d == now - call.record.CreatedAt
        IN  /\ res.body.expires_in = L - d
            /\ \A t \in DOMAIN TokensNow \ DOMAIN call.before :
                   TokensNow[t].ExpiresAt = call.record.CreatedAt + L

\* the URL of the protected-resource metadata document, as the mux routes it
ProtectedResourceMetadataURL == <<ServerURL, "/.well-known/oauth-protected-resource">>

\* 'Bearer <non-empty token>'
BearerForm(hdr) == Len(hdr) = 2 /\ hdr[1] = "Bearer " /\ hdr[2] \notin {"", " "}

\* C15: a request whose Authorization header is absent, is not of the form
\* 'Bearer <non-empty token>', or carries an opaque token that LookupToken
\* does not find (a revoked one included) never reaches the protected
\* handler; it is answered 401 with a WWW-Authenticate header that names the
\* protected-resource metadata URL.
GateRejects ==
    /\ (/\ call.op = "Wrap"
        /\ (call.hdr = << >> \/ ~BearerForm(call.hdr) \/ ~call.found.ok))
           => /\ res.status = 401
              /\ ~res.served
              /\ res.www = <<"Bearer resource_metadata=\"">>
                               \o ProtectedResourceMetadataURL \o <<"\"">>
    /\ \A i \in Solo :
           (slots[i].kind = "mw" /\ slots[i].pc # "done")
               => (BearerForm(slots[i].hdr) /\ slots[i].found.ok)

\* a token that was accepted before and then revoked is turned down
GateRejectsWitness ==
    /\ call.op = "Wrap"
    /\ BearerForm(call.hdr)
    /\ call.hdr[2] \in trail.revoked
    /\ res.status = 401
    /\ ~res.served
    /\ cache # EmptyMap

EvictsOld ==
    (call.op = "Wrap" /\ res.served /\ call.refreshed) =>
        ~Has(cache, tokenHash(call.found.rec.WebexAccessToken))

-----------------------------------------------------------------------------
(* Claims on concurrent protected requests (SpecRefreshRace) *)

\* C18: once a refresh of the opaque token T has written new Webex tokens to
\* the store, a request that looks T up after that write reaches the
\* protected handler neither with the access token the write replaced nor
\* with a cached client built on it.
NoStaleCredential ==
    (call.op = "Wrap" /\ res.served) =>
        /\ res.ctxToken \notin call.stale
        /\ res.client.builtOn \notin call.stale

\* a request that looked its token up after a refresh was served while
\* another one, which had looked it up before, still held the replaced token
NoStaleCredentialWitness ==
    /\ call.op = "Wrap"
    /\ res.served
    /\ call.stale # {}
    /\ \E j \in Requests :
           /\ slots[j].kind = "mw"
           /\ slots[j].pc # "done"
           /\ slots[j].tok \in call.stale
    /\ \E k \in DOMAIN cache : cache[k].client.builtOn \in call.stale

-----------------------------------------------------------------------------
(* Claims on the sweeper (SpecSession, SpecSweep) *)

\* C19: neither the sweeper nor a handler of the flow removes a TokenRecord
\* or a RegisteredClient: a sweep deletes the AuthCodeRecords whose ExpiresAt
\* has passed and the PendingAuths older than 10 minutes and nothing else,
\* and a TokenRecord is found by LookupToken until RevokeToken is called for
\* it, also after its Webex token has expired.
SweepFrame ==
    /\ \A t \in DOMAIN trail.tokenOf \ trail.revoked : Store_LookupToken(t).ok
    /\ \A c \in DOMAIN registered : Has(StoreNow.clients, c)
    /\ call.op = "cleanup" =>
           /\ StoreNow.tokens = call.before.tokens
           /\ StoreNow.clients = call.before.clients
           /\ StoreNow.authCodes =
                  [k \in {x \in DOMAIN call.before.authCodes :
                             ~(now > call.before.authCodes[x].ExpiresAt)}
                      |-> call.before.authCodes[k]]
           /\ StoreNow.pendingAuths =
                  [k \in {x \in DOMAIN call.before.pendingAuths :
                             ~(now - call.before.pendingAuths[x].CreatedAt > PendingAuthTTL)}
                      |-> call.before.pendingAuths[k]]

\* a sweep has removed an expired code and an old PendingAuth and has left a
\* TokenRecord whose Webex token had expired
SweepFrameWitness ==
    /\ call.op = "cleanup"
    /\ DOMAIN StoreNow.authCodes # DOMAIN call.before.authCodes
    /\ DOMAIN StoreNow.pendingAuths # DOMAIN call.before.pendingAuths
    /\ \E t \in DOMAIN StoreNow.tokens : now > StoreNow.tokens[t].ExpiresAt

\* C20: for every sequence of Store and Consume calls and every placement of
\* sweeper runs among them, each ConsumeAuthCode and ConsumePendingAuth
\* returns what it returns in the run without the sweeper.
SweeperTransparent ==
    call.op \in {"ConsumeAuthCode", "ConsumePendingAuth"} =>
        /\ res.mem = res.plain.mem
        /\ res.sql = res.plain.sql

-----------------------------------------------------------------------------
(* SpecShutdown: the two sweeper goroutines and Close.  The Store's sweeper *)
(* is cut at its select and at each statement it runs outside a lock; the   *)
(* cache's sweeper runs its loop body under cc.mu in one step.              *)

notLife == <<call, res, stored, uses, raceVars, clientVars, flowVars, webex, shadow, sideVars>>

ShutdownTick ==
    /\ now + TickStep <= MaxTime
    /\ now' = now + TickStep
    /\ UNCHANGED <<ms, sq, cache, life>>
    /\ UNCHANGED notLife

\* a protected request is served while the server runs: GetOrCreate
ShutdownServe ==
    /\ ~life.closed
    /\ \E n \in 1 .. webex :
           cache' = ClientCache_GetOrCreate(cache, WebexAccessTokens[n], now).cache
    /\ UNCHANGED <<now, ms, sq, life>>
    /\ UNCHANGED notLife

\* select: case <-ticker.C.  With stopCleanup closed and the ticker ready,
\* select may still take this case.
Sweeper_Ticker ==
    /\ life.sweeper = "select"
    /\ life' = [life EXCEPT !.sweeper = "delCodes", !.at = now]
    /\ UNCHANGED <<now, ms, sq, cache>>
    /\ UNCHANGED notLife

\* select: case <-stopCleanup
Sweeper_Stop ==
    /\ life.sweeper = "select"
    /\ life.stopCleanup = "closed"
    /\ life' = [life EXCEPT !.sweeper = "returned"]
    /\ UNCHANGED <<now, ms, sq, cache>>
    /\ UNCHANGED notLife

\* the sweep: MemoryStore runs both loops under ms.mu; the SQL stores run
\* DELETE FROM auth_codes here and DELETE FROM pending_auths next.  On a
\* closed database Exec fails and its error is dropped.
Sweeper_DeleteAuthCodes ==
    /\ life.sweeper = "delCodes"
    /\ IF backend = "mem"
       THEN /\ ms' = MemoryStore_cleanup(ms, life.at)
            /\ sq' = sq
            /\ life' = [life EXCEPT !.sweeper = "select",
                            !.late = IF life.closed THEN @ \cup {"store"} ELSE @]
       ELSE /\ sq' = IF life.closed THEN sq
                     ELSE [sq EXCEPT !.authCodes = SQLiteStore_cleanup(sq, life.at).authCodes]
            /\ ms' = ms
            /\ life' = [life EXCEPT !.sweeper = "delPendings",
                            !.late = IF life.closed THEN @ \cup {"store"} ELSE @]
    /\ UNCHANGED <<now, cache>>
    /\ UNCHANGED notLife

Sweeper_DeletePendingAuths ==
    /\ life.sweeper = "delPendings"
    /\ sq' = IF life.closed THEN sq
             ELSE [sq EXCEPT !.pendingAuths = SQLiteStore_cleanup(sq, life.at).pendingAuths]
    /\ life' = [life EXCEPT !.sweeper = "select",
                    !.late = IF life.closed THEN @ \cup {"store"} ELSE @]
    /\ UNCHANGED <<now, ms, cache>>
    /\ UNCHANGED notLife

\* ClientCache.cleanup: for range ticker.C { ... }; the loop has no other exit
CacheSweeper_Ticker ==
    /\ life.cacheSweeper = "range"
    /\ cache' = ClientCache_cleanup(cache, now)
    /\ life' = [life EXCEPT !.late = IF life.closed THEN @ \cup {"cache"} ELSE @]
    /\ UNCHANGED <<now, ms, sq>>
    /\ UNCHANGED notLife

\* Store.Close, deferred by startHTTPServer: close(stopCleanup), db.Close()
Close ==
    /\ ~life.closed
    /\ life' = [life EXCEPT !.stopCleanup = "closed", !.closed = TRUE]
    /\ UNCHANGED <<now, ms, sq, cache>>
    /\ UNCHANGED notLife

NextShutdown ==
    \/ ShutdownTick
    \/ ShutdownServe
    \/ Sweeper_Ticker
    \/ Sweeper_Stop
    \/ Sweeper_DeleteAuthCodes
    \/ Sweeper_DeletePendingAuths
    \/ CacheSweeper_Ticker
    \/ Close

SpecShutdown == InitSession /\ [][NextShutdown]_vars

\* C21: both sweepers can be stopped, and when Close has closed the storage
\* handle each of them has stopped: it has returned and touches neither the
\* store nor the cache any more.
SweepersStopBeforeClose ==
    life.closed =>
        /\ life.sweeper = "returned"
        /\ life.cacheSweeper = "returned"
        /\ life.late = {}

-----------------------------------------------------------------------------
(* SpecRegisterRace: RegisterClientWithID called from several goroutines    *)
(* while ValidateRedirectURI is asked.  MemoryStore runs the method under   *)
(* ms.mu; the SQL stores run LookupClient and then one statement, and       *)
(* another goroutine may run between the two.  Here registered holds, per   *)
(* client, the redirect URIs that ValidateRedirectURI has accepted so far.  *)

notRegisterRace == <<now, stored, uses, mu, wlock, fresh, flowVars, sessionVars, sideVars>>

RegisterRace_Call(i) ==
    /\ g[i].pc = "idle"
    /\ \E clientID \in RegisteredIDs : \E redirectURI \in {SlashURI, QueryURI} :
           LET mine == [pc |-> "done", op |-> "RegisterClientWithID", tbl |-> "clients",
                        key |-> clientID, uri |-> redirectURI, row |-> NotFound]
           IN  IF backend = "mem"
               THEN /\ ms' = MemoryStore_RegisterClientWithID(ms, clientID, redirectURI)
                    /\ g' = [g EXCEPT ![i] = mine]
                    /\ sq' = sq
               ELSE /\ g' = [g EXCEPT ![i] =
                           [mine EXCEPT !.pc = "write",
                                        !.row = SQLiteStore_LookupClient(sq, clientID)]]
                    /\ UNCHANGED <<ms, sq>>
    /\ call' = [op |-> "RegisterClientWithID"]
    /\ res' = [status |-> 0, error |-> ""]
    /\ UNCHANGED registered
    /\ UNCHANGED notRegisterRace

RegisterRace_Write(i) ==
    /\ g[i].pc = "write"
    /\ sq' = SQLiteStore_RegisterClientWithID_Write(sq, g[i].row, g[i].key, g[i].uri)
    /\ g' = [g EXCEPT ![i].pc = "done"]
    /\ call' = [op |-> "RegisterClientWithID"]
    /\ res' = [status |-> 0, error |-> ""]
    /\ UNCHANGED <<ms, registered>>
    /\ UNCHANGED notRegisterRace

RegisterRace_Validate ==
    /\ \E clientID \in RegisteredIDs : \E redirectURI \in URIs :
           LET valid == Store_ValidateRedirectURI(clientID, redirectURI)
           IN  /\ call' = [op |-> "ValidateRedirectURI", key |-> clientID,
                           uri |-> redirectURI]
               /\ res' = [status |-> 0, error |-> "", ok |-> valid]
               /\ registered' =
                      IF ~valid THEN registered
                      ELSE IF Has(registered, clientID)
                      THEN [registered EXCEPT ![clientID] = @ \cup {redirectURI}]
                      ELSE Put(registered, clientID, {redirectURI})
    /\ UNCHANGED <<ms, sq, g>>
    /\ UNCHANGED notRegisterRace

NextRegisterRace ==
    \/ \E i \in Goroutines : RegisterRace_Call(i)
    \/ \E i \in Goroutines : RegisterRace_Write(i)
    \/ RegisterRace_Validate

SpecRegisterRace == InitFlow /\ [][NextRegisterRace]_vars

\* C22: once ValidateRedirectURI(c, u) has returned true it returns true in
\* every later state, whatever RegisterClientWithID(c, u') calls run for the
\* same client, in sequence or concurrently, on every backend.
RedirectURIsAppendOnly ==
    \A c \in DOMAIN registered : \A u \in registered[c] :
        Store_ValidateRedirectURI(c, u)

-----------------------------------------------------------------------------
(* The client's own parameters in the flow: its redirect URI with a query, *)
(* its state, its PKCE challenge at /authorize and verifier at /token.     *)

PkceURIs == {BaseURI, QueryURI}

\* the client sends a state or none
ClientStates == {ClientState, ""}

CodeChallenges ==
    {NoChallenge, [code_challenge |-> "challenge", code_challenge_method |-> "S256"]}

CodeVerifiers == {"", "client-verifier"}

\* one client, registered with a plain redirect URI and with one that has a query
InitPkce ==
    /\ now = 0
    /\ backend \in Backends
    /\ ms = MemoryStore_RegisterClientWithID(
                MemoryStore_RegisterClientWithID(NewMemoryStore, "A", BaseURI),
                "A", QueryURI)
    /\ sq = SQLiteStore_RegisterClientWithID(
                SQLiteStore_RegisterClientWithID(NewSQLiteStore, "A", BaseURI),
                "A", QueryURI)
    /\ registered = Put(EmptyMap, "A", {BaseURI, QueryURI})
    /\ call = [op |-> "New"]
    /\ res = [status |-> 0, error |-> ""]
    /\ stored = [b \in Backends |-> [t \in Tables |-> EmptyMap]]
    /\ uses = [b \in Backends |-> [t \in Tables |-> EmptyMap]]
    /\ g = [i \in Goroutines |-> Idle]
    /\ mu = 0
    /\ wlock = 0
    \* one identifier was drawn before, by a flow that has left nothing behind
    /\ fresh = 1
    /\ webex = 0
    /\ cache = EmptyMap
    /\ shadow = EmptyMap
    /\ life = Started
    /\ tools = NoTools
    /\ mercury = NoMercury
    /\ notes = NoNotes
    /\ slots = [i \in Requests |-> NoRequest]
    /\ trail = NoTrail

\* /authorize of a client that sends PKCE parameters or none
HandleAuthorize_PKCE == Authorize({BaseURI}, {ClientState}, CodeChallenges)

\* /token of a client that sends a code_verifier or none
HandleToken_PKCE(i) == TokenRequest(i, CodeVerifiers)

\* authorizations pile up as PendingAuths; one goroutine serves /callback
\* and /token
NextPkce ==
    \/ HandleAuthorize_PKCE
    \/ \E i \in Solo : HandleCallback(i)
    \/ \E i \in Solo : HandleToken_PKCE(i)
    \/ \E i \in Solo : ConsumeCommit(i)
    \/ \E i \in Solo : HandleCallback_Issue(i)
    \/ \E i \in Solo : handleAuthCodeExchange(i)

SpecPkce == InitPkce /\ [][NextPkce]_vars

\* /authorize of a client that sends either redirect URI, with a state or none
HandleAuthorize_Redirect == Authorize(PkceURIs, ClientStates, {NoChallenge})

NextRedirect ==
    \/ HandleAuthorize_Redirect
    \/ \E i \in Solo : HandleCallback(i)
    \/ \E i \in Solo : ConsumeCommit(i)
    \/ \E i \in Solo : HandleCallback_Issue(i)

SpecRedirect == InitPkce /\ [][NextRedirect]_vars

\* the query of a redirect as a map from its keys to their values
QueryMap(location) ==
    [k \in {location.RawQuery[j][1] : j \in 1 .. Len(location.RawQuery)} |->
        CHOOSE v \in QueryValues(location) :
            \E j \in 1 .. Len(location.RawQuery) : location.RawQuery[j] = <<k, v>>]

UpstreamVerifierMatches ==
    call.op = "HandleCallback" =>
        LET sent == call.upstream.code_verifier
            mine == call.pending.State
        IN  /\ sent = trail.authorized[mine].WebexCodeVerifier
            /\ \A other \in DOMAIN trail.authorized \ {mine} :
                   trail.authorized[other].WebexCodeVerifier # sent
            /\ \A pkce \in CodeChallenges :
                   sent \notin {pkce.code_challenge, pkce.code_challenge_method}
            /\ call.upstream.code = call.webexCode

\* a /callback of a client that sent a code_challenge has posted its
\* verifier while another authorization, with its own verifier, is pending
UpstreamVerifierMatchesWitness ==
    /\ call.op = "HandleCallback"
    /\ call.pending.CodeChallenge # ""
    /\ \E other \in DOMAIN StoreNow.pendingAuths :
           /\ StoreNow.pendingAuths[other].CodeChallenge = ""
           /\ StoreNow.pendingAuths[other].WebexCodeVerifier
                  # call.upstream.code_verifier

\* C25: the downstream PKCE parameters are not enforced: a /token
\* authorization_code request that got past ConsumeAuthCode is answered, and
\* changes the store, exactly as the request that differs from it in
\* nothing but its code_verifier would be, from the same state: same status,
\* same error or same body, same tables.
VerifierNotEnforced ==
    [][\A i \in Solo :
           (slots[i].pc = "finish" /\ slots[i].kind = "token" /\ slots'[i].pc = "done") =>
               \A codeVerifier \in CodeVerifiers :
                   AuthCodeExchange(i, [slots[i] EXCEPT !.verifier = codeVerifier])]_vars

\* a client that sent a code_challenge to /authorize got its token with a
\* code_verifier that is not the preimage of that challenge
VerifierNotEnforcedWitness ==
    /\ call.op = "handleAuthCodeExchange"
    /\ res.status = 200
    /\ call.codeVerifier = "client-verifier"
    /\ trail.authorized[trail.tokenOf[res.body.access_token].state].CodeChallenge
           = "challenge"

\* a response that reports a failed validation: an error below the 500s
ValidationFailure(r) == r.error # "" /\ r.status < 500

\* the structured OAuth error: a 4xx status and a JSON body with error and
\* error_description
StructuredError(r) ==
    /\ r.status \in 400 .. 499
    /\ r.body.contentType = "application/json"
    /\ r.body.keys = {"error", "error_description"}

\* C26: every validation failure on /authorize, /callback and /token (a
\* missing parameter, an unknown state, an unknown code, an unsupported
\* response type) is answered with a 4xx status and a structured OAuth error
\* body that contains error and error_description.
ValidationErrorsStructured ==
    /\ (call.op = "HandleAuthorize" /\ ValidationFailure(res)) => StructuredError(res)
    /\ \A i \in Requests :
           (slots[i].pc = "done" /\ ValidationFailure(slots[i])) => StructuredError(slots[i])

-----------------------------------------------------------------------------
(* Upstream failures: Webex may refuse a post and accept the next one *)

\* what Webex would answer to a first and to a second post
TwoAttempts == [1 .. 2 -> BOOLEAN]

HandleCallback_Upstream(i) == CallbackIssue(i, TwoAttempts)

handleRefreshToken_Upstream == RefreshGrant(TwoAttempts)

NextUpstream ==
    \/ SessionTick
    \/ \E i \in Solo : HandleCallback(i)
    \/ \E i \in Solo : ConsumeCommit(i)
    \/ \E i \in Solo : HandleCallback_Upstream(i)
    \/ handleRefreshToken_Upstream

SpecUpstream == InitSession /\ [][NextUpstream]_vars

\* no PendingAuth of the state is stored, no code was issued for it and no
\* /callback holds it: the authorization cannot be completed
Spent(state) ==
    /\ ~Has(StoreNow.pendingAuths, state)
    /\ \A code \in DOMAIN trail.codeOf : trail.codeOf[code] # state
    /\ \A i \in Requests : slots[i].kind = "callback" /\ slots[i].pc # "done"
                               => slots[i].key # state

\* C27: an upstream failure is surfaced at once and never retried.  When
\* Webex refuses the code exchange of a /callback the answer is the failure,
\* also if a second post would have been accepted; the PendingAuth stays
\* consumed, no AuthCodeRecord is created, and the state stays spent, so
\* that every later /callback with it is rejected.  When Webex refuses the
\* refresh of a refresh_token grant the answer is invalid_grant and the
\* token records are as before.
UpstreamFailureSurfaced ==
    /\ [](/\ (call.op = "HandleCallback" /\ ~call.answers[1]) =>
                 /\ res.status = 500
                 /\ Spent(call.pending.State)
                 /\ StoreNow.authCodes = call.before
          /\ (call.op = "handleRefreshToken" /\ call.answers # << >>
                  /\ ~call.answers[1]) =>
                 /\ res.status = 400
                 /\ res.error = "invalid_grant"
                 /\ TokensNow = call.before)
    /\ [][\A state \in DOMAIN trail.authorized : Spent(state) => Spent(state)']_vars

\* Webex refused a code exchange and a refresh it would have accepted at the
\* second post; the state of the failed /callback was presented again
UpstreamFailureSurfacedWitness ==
    /\ call.op = "handleRefreshToken"
    /\ call.answers = <<FALSE, TRUE>>
    /\ Has(call.before, call.refreshToken)
    /\ slots[1].kind = "callback"
    /\ slots[1].status = 400
    /\ Spent("state2")
    /\ now < PendingAuthTTL

-----------------------------------------------------------------------------
(* POST /register *)

\* the bodies of POST /register: redirect_uris missing, empty or not, the
\* optional members present or not
RegisterBodies ==
    [RedirectURIs : {<< >>, <<BaseURI>>, <<BaseURI, SlashURI>>},
     TokenEndpointAuthMethod : {"", "none", "client_secret_post", "client_secret_basic"},
     GrantTypes : {<< >>, <<"authorization_code", "refresh_token">>},
     ResponseTypes : {<< >>, <<"code">>}]

\* mutant: a secret is generated for every client
NeedsSecret_Always(authMethod) == TRUE

\* authMethod == "client_secret_post" || authMethod == "client_secret_basic"
NeedsSecret(authMethod) == authMethod \in {"client_secret_post", "client_secret_basic"}

\* the authMethod RegisterClient goes on with
AuthMethodOf(req) ==
    IF req.TokenEndpointAuthMethod = "" THEN "none" ELSE req.TokenEndpointAuthMethod

\* the *RegisteredClient RegisterClient builds; secret is the second value it
\* draws, if it draws one
NewRegisteredClient(req, clientID, secret) ==
    [ClientID |-> clientID,
     ClientSecret |-> IF NeedsSecret(AuthMethodOf(req)) THEN secret ELSE "",
     RedirectURIs |-> req.RedirectURIs,
     TokenEndpointAuthMethod |-> AuthMethodOf(req),
     GrantTypes |-> IF Len(req.GrantTypes) = 0 THEN <<"authorization_code">>
                    ELSE req.GrantTypes,
     ResponseTypes |-> IF Len(req.ResponseTypes) = 0 THEN <<"code">>
                       ELSE req.ResponseTypes]

\* the body of the 201
RegistrationResponse(client) ==
    [client_id |-> client.ClientID, client_secret |-> client.ClientSecret,
     redirect_uris |-> client.RedirectURIs,
     token_endpoint_auth_method |-> client.TokenEndpointAuthMethod,
     grant_types |-> client.GrantTypes, response_types |-> client.ResponseTypes]

\* POST /register: the handler and the store's RegisterClient
HandleRegister ==
    /\ \E req \in RegisterBodies :
           LET clientID == Token(fresh + 1)
               drawn == IF NeedsSecret(AuthMethodOf(req)) THEN 2 ELSE 1
               client == NewRegisteredClient(req, clientID, Token(fresh + 2))
               m == MemoryStore_RegisterClient(ms, client, clientID)
               d == SQLiteStore_RegisterClient(sq, client, clientID)
               ret == IF backend = "mem" THEN m.ret ELSE d.ret
           IN  /\ call' = [op |-> "HandleRegister", req |-> req,
                           before |-> StoreNow.clients, drawn |-> fresh]
               /\ IF Len(req.RedirectURIs) = 0
                  THEN /\ res' = [status |-> 400, error |-> "invalid_client_metadata",
                                  body |-> writeJSONError]
                       /\ UNCHANGED <<ms, sq, fresh, registered>>
                  ELSE /\ fresh + drawn <= MaxFresh
                       /\ fresh' = fresh + drawn
                       /\ StoreIs(m.store, d.store)
                       /\ IF ret.ok
                          THEN /\ res' = [status |-> 201, error |-> "",
                                          body |-> RegistrationResponse(client)]
                               /\ registered' =
                                      Put(registered, clientID,
                                          {req.RedirectURIs[j] :
                                               j \in 1 .. Len(req.RedirectURIs)})
                          ELSE /\ res' = [status |-> 500, error |-> "server_error",
                                          body |-> writeJSONError]
                               /\ UNCHANGED registered
    /\ UNCHANGED <<now, backend, slots, trail, webex>>
    /\ UNCHANGED <<stored, uses, raceVars, cache, shadow, life, sideVars>>

NextRegister == HandleRegister

SpecRegister == InitFlow /\ [][NextRegister]_vars

\* C28: POST /register with an empty or missing redirect_uris list answers
\* invalid_client_metadata and registers no client; with a non-empty list it
\* registers exactly one new client, under a client_id generated for it,
\* with the auth method defaulting to none, the grant types to
\* [authorization_code], the response types to [code], and with a generated
\* client_secret if and only if the auth method is client_secret_post or
\* client_secret_basic.
RegisterContract ==
    call.op = "HandleRegister" =>
        LET req == call.req
            clients == StoreNow.clients
        IN  IF req.RedirectURIs = << >>
            THEN /\ res.status = 400
                 /\ res.error = "invalid_client_metadata"
                 /\ clients = call.before
            ELSE LET id == res.body.client_id
                     method == res.body.token_endpoint_auth_method
                     earlier == {Token(n) : n \in 1 .. call.drawn}
                 IN  /\ res.status = 201
                     /\ id \notin earlier \cup DOMAIN call.before
                     /\ DOMAIN clients = DOMAIN call.before \cup {id}
                     /\ \A k \in DOMAIN call.before : clients[k] = call.before[k]
                     /\ Store_ValidateRedirectURI(id, req.RedirectURIs[1])
                     /\ res.body.redirect_uris = req.RedirectURIs
                     /\ method = IF req.TokenEndpointAuthMethod = "" THEN "none"
                                 ELSE req.TokenEndpointAuthMethod
                     /\ res.body.grant_types =
                            IF req.GrantTypes = << >> THEN <<"authorization_code">>
                            ELSE req.GrantTypes
                     /\ res.body.response_types =
                            IF req.ResponseTypes = << >> THEN <<"code">>
                            ELSE req.ResponseTypes
                     /\ res.body.client_secret # "" <=>
                            method \in {"client_secret_post", "client_secret_basic"}
                     /\ res.body.client_secret \notin earlier \cup {id}

\* a client that named no auth method was registered after one that got a
\* secret
RegisterContractWitness ==
    /\ call.op = "HandleRegister"
    /\ res.status = 201
    /\ call.req.TokenEndpointAuthMethod = ""
    /\ call.req.GrantTypes = << >>
    /\ res.body.client_secret = ""
    /\ call.drawn = 2
    /\ Cardinality(DOMAIN StoreNow.clients) = 3

-----------------------------------------------------------------------------
(* The token methods of the Store, called one after the other on both      *)
(* backends.  trail.tokenOf keeps what each StoreToken was called with,    *)
(* trail.replaced and trail.revoked the tokens UpdateWebexToken and        *)
(* RevokeToken were called for.                                            *)

\* the StoreToken calls of a run
MaxTokens == 2

\* the Webex token pairs a caller hands to StoreToken and UpdateWebexToken
TokenPairs == {1, 2}

TokenTables == [mem |-> ms.tokens, sql |-> sq.tokens]

\* the opaque tokens a caller may name: those returned so far, and one made up
NamedTokens == {Token(n) : n \in 1 .. fresh} \cup {"bogus"}

Tokens_StoreToken ==
    /\ fresh < MaxTokens
    /\ \E n \in TokenPairs :
           LET opaque == Token(fresh + 1)
               d == SQLiteStore_StoreToken(sq, opaque, WebexAccessTokens[n],
                                           WebexRefreshTokens[n], WebexExpiresIn, now)
           IN  /\ ms' = MemoryStore_StoreToken(ms, opaque, WebexAccessTokens[n],
                                               WebexRefreshTokens[n], WebexExpiresIn, now)
               /\ sq' = d.store
               /\ fresh' = fresh + 1
               /\ call' = [op |-> "StoreToken", key |-> opaque, before |-> TokenTables]
               /\ res' = [mem |-> Found(opaque),
                          sql |-> IF d.err THEN NotFound ELSE Found(opaque)]
               /\ trail' = [trail EXCEPT !.tokenOf =
                                Put(@, opaque, [access |-> WebexAccessTokens[n],
                                                refresh |-> WebexRefreshTokens[n]])]
    /\ UNCHANGED <<now, registered, backend, slots, shadow>>
    /\ UNCHANGED <<stored, uses, raceVars, cache, webex, life, sideVars>>

Tokens_LookupToken ==
    /\ \E opaqueToken \in NamedTokens :
           /\ call' = [op |-> "LookupToken", key |-> opaqueToken, before |-> TokenTables]
           /\ res' = [mem |-> MemoryStore_LookupToken(ms, opaqueToken),
                      sql |-> SQLiteStore_LookupToken(sq, opaqueToken)]
    /\ UNCHANGED <<now, ms, sq, shadow>>
    /\ UNCHANGED notSweep

Tokens_UpdateWebexToken ==
    /\ \E opaqueToken \in NamedTokens : \E n \in TokenPairs :
           /\ ms' = MemoryStore_UpdateWebexToken(ms, opaqueToken, WebexAccessTokens[n + 2],
                                                 WebexRefreshTokens[n + 2],
                                                 WebexExpiresIn, now)
           /\ sq' = SQLiteStore_UpdateWebexToken(sq, opaqueToken, WebexAccessTokens[n + 2],
                                                 WebexRefreshTokens[n + 2],
                                                 WebexExpiresIn, now)
           /\ call' = [op |-> "UpdateWebexToken", key |-> opaqueToken,
                       before |-> TokenTables]
           /\ res' = NoAnswer
           /\ trail' = [trail EXCEPT !.replaced = @ \cup {opaqueToken}]
    /\ UNCHANGED <<now, fresh, registered, backend, slots, shadow>>
    /\ UNCHANGED <<stored, uses, raceVars, cache, webex, life, sideVars>>

Tokens_RevokeToken ==
    /\ \E opaqueToken \in NamedTokens :
           /\ ms' = MemoryStore_RevokeToken(ms, opaqueToken)
           /\ sq' = SQLiteStore_RevokeToken(sq, opaqueToken)
           /\ call' = [op |-> "RevokeToken", key |-> opaqueToken, before |-> TokenTables]
           /\ res' = NoAnswer
           /\ trail' = [trail EXCEPT !.revoked = @ \cup {opaqueToken}]
    /\ UNCHANGED <<now, fresh, registered, backend, slots, shadow>>
    /\ UNCHANGED <<stored, uses, raceVars, cache, webex, life, sideVars>>

NextTokens ==
    \/ SweepTick
    \/ SweepCleanup
    \/ Tokens_StoreToken
    \/ Tokens_LookupToken
    \/ Tokens_UpdateWebexToken
    \/ Tokens_RevokeToken

SpecTokens == InitSweep /\ [][NextTokens]_vars

\* what LookupToken answers now, on either backend
LookupNow(opaqueToken) ==
    [mem |-> MemoryStore_LookupToken(ms, opaqueToken),
     sql |-> SQLiteStore_LookupToken(sq, opaqueToken)]

\* C29: for every StoreToken(a, r, e) that returned the opaque token T,
\* LookupToken(T) returns a record with access token a and refresh token r
\* until UpdateWebexToken(T, ..) or RevokeToken(T) is called; the tokens
\* returned by distinct StoreToken calls are distinct; RevokeToken(T) makes
\* LookupToken(T) answer not-found and leaves every other record as it was.
\* On both backends.
TokenRoundTrip ==
    \A b \in Backends :
        /\ \A T \in DOMAIN trail.tokenOf \ (trail.replaced \cup trail.revoked) :
               /\ LookupNow(T)[b].ok
               /\ LookupNow(T)[b].rec.WebexAccessToken = trail.tokenOf[T].access
               /\ LookupNow(T)[b].rec.WebexRefreshToken = trail.tokenOf[T].refresh
        /\ call.op = "LookupToken" => res[b] = LookupNow(call.key)[b]
        /\ call.op = "StoreToken" =>
               /\ res[b] = Found(call.key)
               /\ ~Has(call.before[b], call.key)
               /\ call.key \notin trail.revoked
        /\ Cardinality(DOMAIN trail.tokenOf) = fresh
        /\ call.op = "RevokeToken" =>
               /\ ~LookupNow(call.key)[b].ok
               /\ \A T \in NamedTokens \ {call.key} :
                      LookupNow(T)[b] = RowOf(call.before[b], T)

\* of two tokens stored with the same Webex pair, one was revoked after the
\* clock had moved and the other is still found
TokenRoundTripWitness ==
    /\ call.op = "RevokeToken"
    /\ Has(call.before.mem, call.key)
    /\ now > 0
    /\ \E T \in DOMAIN trail.tokenOf \ (trail.replaced \cup trail.revoked) :
           /\ T # call.key
           /\ trail.tokenOf[T] = trail.tokenOf[call.key]
           /\ LookupNow(T).sql.ok

-----------------------------------------------------------------------------
(* The client cache on its own: its methods called one after the other *)

\* the access tokens GetOrCreate and Evict are called with
CacheTokens == {WebexAccessTokens[1], WebexAccessTokens[2]}

Cache_GetOrCreate ==
    /\ \E accessToken \in CacheTokens :
           LET got == ClientCache_GetOrCreate(cache, accessToken, now)
           IN  /\ cache' = got.cache
               /\ call' = [op |-> "GetOrCreate", accessToken |-> accessToken,
                           before |-> cache]
               /\ res' = [status |-> 0, error |-> "", client |-> got.client]
    /\ UNCHANGED <<now, ms, sq, fresh, webex, backend, slots, trail>>
    /\ UNCHANGED notSession

Cache_Evict ==
    /\ \E accessToken \in CacheTokens :
           /\ cache' = ClientCache_Evict(cache, accessToken)
           /\ call' = [op |-> "Evict", accessToken |-> accessToken, before |-> cache]
           /\ res' = [status |-> 0, error |-> ""]
    /\ UNCHANGED <<now, ms, sq, fresh, webex, backend, slots, trail>>
    /\ UNCHANGED notSession

NextCache ==
    \/ SessionTick
    \/ CacheCleanup
    \/ Cache_GetOrCreate
    \/ Cache_Evict

SpecCache == InitSession /\ [][NextCache]_vars

\* C30: GetOrCreate(token) returns the client already cached for the token
\* while the age of the entry is below the TTL, and leaves the cache as it
\* is; with no entry, or with one whose age has reached the TTL, it makes a
\* new client and stores it with a TTL that starts now; the client it
\* returns was never made from another access token than the one passed in.
GetOrCreateContract ==
    call.op = "GetOrCreate" =>
        LET key == tokenHash(call.accessToken)
            had == Has(call.before, key)
            age == now - call.before[key].client.madeAt
        IN  /\ res.client.builtOn = call.accessToken
            /\ IF had /\ age < CacheTTL
               THEN /\ res.client = call.before[key].client
                    /\ cache = call.before
               ELSE /\ res.client.madeAt = now
                    /\ had => res.client # call.before[key].client
                    /\ cache = Put(call.before, key,
                                   [client |-> res.client, expiresAt |-> now + CacheTTL])

\* the entry of a token reached the TTL and was replaced while the entry of
\* another token, younger, stayed
GetOrCreateContractWitness ==
    /\ call.op = "GetOrCreate"
    /\ Has(call.before, tokenHash(call.accessToken))
    /\ res.client.madeAt = now
    /\ \E k \in DOMAIN cache : cache[k].client.builtOn # call.accessToken

(***************************************************************************)
(* The tool filter (tools/filter.go).  A string is a sequence of           *)
(* characters; the filter strings come from --include and --exclude.        *)
(***************************************************************************)
notTools == <<storeVars, raceVars, clientVars, flowVars, sessionVars, mercury, notes>>

MaxAddTool == 3

WebexPrefix == <<"w", "e", "b", "e", "x", "_">>

\* strings.HasPrefix, strings.HasSuffix
HasPrefix(s, p) == Len(s) >= Len(p) /\ SubSeq(s, 1, Len(p)) = p

HasSuffix(s, p) == Len(s) >= Len(p) /\ SubSeq(s, Len(s) - Len(p) + 1, Len(s)) = p

\* strings.Split(s, sep) for a separator of one character
RECURSIVE Split(_, _)
Split(s, sep) ==
    LET i == IndexOf(s, sep)
    IN  IF i = 0 THEN <<s>>
        ELSE <<SubSeq(s, 1, i - 1)>> \o Split(SubSeq(s, i + 1, Len(s)), sep)

\* strings.SplitN(s, sep, 2)
SplitN2(s, sep) ==
    LET i == IndexOf(s, sep)
    IN  IF i = 0 THEN <<s>>
        ELSE <<SubSeq(s, 1, i - 1), SubSeq(s, i + 1, Len(s))>>

\* strings.ReplaceAll(s, old, new) for single characters
ReplaceAll(s, old, new) == [i \in 1 .. Len(s) |-> IF s[i] = old THEN new ELSE s[i]]

\* the candidate full tool names of one filter entry
normalizeToolName(entry) ==
    IF HasPrefix(entry, WebexPrefix) THEN <<entry>>
    ELSE LET parts == SplitN2(entry, ":")
         IN  IF Len(parts) # 2 \/ parts[1] = << >> \/ parts[2] = << >> THEN <<entry>>
             ELSE LET category == TrimSpace(parts[1])
                      action == ReplaceAll(ReplaceAll(TrimSpace(parts[2]), ":", "_"),
                                           "-", "_")
                      plain == WebexPrefix \o category \o <<"_">> \o action
                      plural == WebexPrefix \o category \o <<"s", "_">> \o action
                  IN  IF HasSuffix(category, <<"s">>) THEN <<plain>>
                      ELSE <<plain, plural>>

Range(seq) == {seq[i] : i \in 1 .. Len(seq)}

\* the set of names a comma-separated filter string stands for; nil is the
\* empty set
parseFilterList(raw) ==
    LET trimmed == TrimSpace(raw)
        entries == Split(trimmed, ",")
        kept == {TrimSpace(entries[i]) : i \in 1 .. Len(entries)} \ {<< >>}
    IN  IF trimmed = << >> THEN {}
        ELSE UNION {Range(normalizeToolName(e)) : e \in kept}

NewToolFilter(include, exclude) ==
    LET inc == parseFilterList(include)
        exc == parseFilterList(exclude)
    IN  [include |-> inc,
         exclude |-> IF inc # {} /\ exc # {} THEN {} ELSE exc]

\* a filter that looks at the exclude list only
ShouldRegister_ExcludeOnly(f, toolName) ==
    IF f.exclude # {} THEN toolName \notin f.exclude ELSE TRUE

ShouldRegister(f, toolName) ==
    IF f.include # {} THEN toolName \in f.include
    ELSE IF f.exclude # {} THEN toolName \notin f.exclude
    ELSE TRUE

\* the values of --include and --exclude that are tried
RawFilters ==
    { << >>,
      <<",", " ">>,
      <<"m", ":", "l">>,
      <<" ", "m", "s", ":", "l", " ", ",", "r", ":", "l">>,
      WebexPrefix \o <<"r", "s", "_", "l">>,
      <<"m", ":", "a", "-", "b">>,
      <<"m", "l">> }

\* the names of the tools that register themselves
ToolNames ==
    { WebexPrefix \o <<"m", "s", "_", "l">>,
      WebexPrefix \o <<"m", "s", "_", "a", "_", "b">>,
      WebexPrefix \o <<"r", "s", "_", "l">>,
      <<"m", "l">> }

\* NewFilteredRegistrar(inner, NewToolFilter(include, exclude)); raw and calls
\* are history: the two flag values and the number of AddTool calls; offered is
\* the set of names AddTool was called with
NewFilteredRegistrar(include, exclude) ==
    LET f == NewToolFilter(include, exclude)
    IN  [include |-> f.include, exclude |-> f.exclude, registered |-> 0,
         skipped |-> 0, inner |-> {}, calls |-> 0, raw |-> <<include, exclude>>,
         offered |-> {}]

InitTools ==
    /\ InitCore
    /\ mercury = NoMercury
    /\ notes = NoNotes
    /\ \E include \in RawFilters, exclude \in RawFilters :
           tools = NewFilteredRegistrar(include, exclude)

FilteredRegistrar_AddTool ==
    /\ tools.calls < MaxAddTool
    /\ \E name \in ToolNames :
           tools' = IF ShouldRegister(tools, name)
                    THEN [tools EXCEPT !.inner = @ \cup {name}, !.registered = @ + 1,
                                       !.calls = @ + 1, !.offered = @ \cup {name}]
                    ELSE [tools EXCEPT !.skipped = @ + 1,
                                       !.calls = @ + 1, !.offered = @ \cup {name}]
    /\ UNCHANGED notTools

NextTools == FilteredRegistrar_AddTool

SpecTools == InitTools /\ [][NextTools]_vars

\* FilteredRegistrar.Stats
Stats == <<tools.registered, tools.skipped>>

\* C31: a tool that was offered is registered exactly when, with a non-empty
\* include list, its name is in the include list, whatever the exclude list
\* says; with only an exclude list, when it is not in it; with neither, always;
\* and the two counters of the registrar add up to the number of AddTool calls
ToolFilterContract ==
    LET include == parseFilterList(tools.raw[1])
        exclude == parseFilterList(tools.raw[2])
    IN  /\ Stats[1] + Stats[2] = tools.calls
        /\ \A name \in tools.offered :
               name \in tools.inner <=>
                   IF include # {} THEN name \in include
                   ELSE IF exclude # {} THEN name \notin exclude
                   ELSE TRUE

\* both lists were given, the exclude list names a tool that the include list
\* names too, and that tool was registered while another one was skipped
ToolFilterContractWitness ==
    LET include == parseFilterList(tools.raw[1])
        exclude == parseFilterList(tools.raw[2])
    IN  /\ tools.registered > 0
        /\ tools.skipped > 0
        /\ \E name \in tools.inner : name \in include /\ name \in exclude
        /\ tools.offered \ tools.inner # {}

-----------------------------------------------------------------------------
(* SpecCoalesce: protected requests with the same opaque token on           *)
(* goroutines of their own.  RefreshWebexTokenForRecord is cut where it     *)
(* waits for Webex: the refresh token is read from the record and posted,   *)
(* and UpdateWebexToken is called when the answer is there.                 *)

\* the header of a client that holds the opaque token gen1
KnownHeaders == {<<"Bearer ", "gen1">>}

Wrap_Known(i) == WrapRequest(i, KnownHeaders)

\* mutant: the refresh token of the record is written back
UpdateArgs_KeepRefresh(record, newTokens) ==
    [newTokens EXCEPT !.RefreshToken = record.WebexRefreshToken]

\* what RefreshWebexTokenForRecord passes to UpdateWebexToken
UpdateArgs(record, newTokens) == newTokens

\* oh.refreshWebexToken(record.WebexRefreshToken): sent and newTokens are
\* what the request posted and what Webex answered
WrapRefresh_Post(i) ==
    /\ slots[i].pc = "refresh"
    /\ \E refreshedOK \in BOOLEAN :
           IF ~refreshedOK
           THEN /\ slots' = [slots EXCEPT ![i] = NoRequest]
                /\ call' = WrapCall(slots[i])
                /\ res' = Unauthorized
                /\ UNCHANGED <<webex, notes>>
           ELSE /\ webex < MaxWebex
                /\ webex' = webex + 1
                /\ Mint(NextWebexTokens.AccessToken)
                /\ slots' = [slots EXCEPT ![i] =
                       [pc |-> "update", sent |-> Rec(i).WebexRefreshToken,
                        newTokens |-> NextWebexTokens] @@ @]
                /\ Other
    /\ UNCHANGED <<now, ms, sq, fresh, backend, cache, trail>>
    /\ UNCHANGED <<stored, uses, raceVars, registered, shadow, life, tools, mercury>>

\* oh.store.UpdateWebexToken(record.OpaqueToken, ..), return newTokens.AccessToken
WrapRefresh_Update(i) ==
    /\ slots[i].pc = "update"
    /\ LET record == Rec(i)
           newTokens == slots[i].newTokens
       IN  /\ Store_UpdateWebexToken(record.OpaqueToken, UpdateArgs(record, newTokens))
           /\ trail' = [trail EXCEPT !.replaced = @ \cup Replaced(record.OpaqueToken)]
           /\ slots' = [slots EXCEPT ![i] =
                  [@ EXCEPT !.pc = "evict",
                            !.tok = Adopt(@, newTokens.AccessToken),
                            !.refreshed = TRUE,
                            !.issued = newTokens.AccessToken]]
           /\ call' = [op |-> "UpdateWebexToken", key |-> record.OpaqueToken]
           /\ res' = [status |-> 0, error |-> ""]
    /\ UNCHANGED <<now, fresh, webex, backend, cache>>
    /\ UNCHANGED notSession

NextCoalesce ==
    \/ SessionTick
    \/ \E i \in Requests : Wrap_Known(i)
    \/ \E i \in Requests : WrapRefresh_Post(i)
    \/ \E i \in Requests : WrapRefresh_Update(i)
    \/ \E i \in Requests : WrapEvict(i)
    \/ \E i \in Requests : WrapServe(i)

SpecCoalesce == InitSession /\ [][NextCoalesce]_vars

\* C32: refreshes are not coalesced: a request that found its token inside the
\* refresh window posts the refresh token it reads from its record to Webex
\* whether or not another request is refreshing the same token, and the
\* UpdateWebexToken of a request leaves in the TokenRecord the pair that this
\* request was given, so the record ends with the pair of the call that ran last
RefreshNotCoalesced ==
    [][\A i \in Requests :
           /\ (slots[i].pc = "refresh" /\ slots'[i].pc = "update"
                   => /\ webex' = webex + 1
                      /\ slots'[i].sent = Rec(i).WebexRefreshToken
                      /\ slots'[i].newTokens.AccessToken = WebexAccessTokens[webex'])
           /\ (slots[i].pc = "update" /\ slots'[i].pc = "evict"
                   => LET record == TokensNow'[slots[i].key]
                      IN  /\ record.WebexAccessToken = slots[i].newTokens.AccessToken
                          /\ record.WebexRefreshToken = slots[i].newTokens.RefreshToken)
      ]_vars

\* two requests with the same opaque token have both posted the same refresh
\* token, both were answered, both have called UpdateWebexToken, and the record
\* holds the pair of the second request while the first goes on with its own
RefreshNotCoalescedWitness ==
    /\ slots[1].pc \in {"evict", "client"}
    /\ slots[2].pc \in {"evict", "client"}
    /\ slots[1].refreshed /\ slots[2].refreshed
    /\ slots[1].key = slots[2].key
    /\ slots[1].sent = slots[2].sent
    /\ slots[1].issued # slots[2].issued
    /\ TokensNow[slots[2].key].WebexAccessToken = slots[2].issued
    /\ slots[1].tok = slots[1].issued

-----------------------------------------------------------------------------
(* SpecTorn: the middleware cut at every read of a field of the             *)
(* *TokenRecord that LookupToken returned.  The in-memory store returns the *)
(* record of its map, which UpdateWebexToken writes under ms.mu; the reads  *)
(* of the middleware are made outside ms.mu, so a write may fall between    *)
(* two of them.  A SQL store returns a row it scanned.  The times at which  *)
(* Webex issued its tokens are kept; the clock stands still while a request *)
(* waits to write the answer of Webex, so that a record written by          *)
(* UpdateWebexToken expires WebexExpiresIn after its access token was       *)
(* issued.                                                                  *)

InitTorn ==
    /\ InitSessionCore
    /\ notes = [on |-> TRUE,
                at |-> [t \in {WebexAccessTokens[1], WebexAccessTokens[2]} |-> 0],
                burnt |-> {}]

TornTick ==
    /\ \A i \in Requests : slots[i].pc # "update"
    /\ SessionTick

\* SplitBearerToken, am.store.LookupToken(opaqueToken)
Torn_LookupToken(i) ==
    /\ slots[i].pc = "done"
    /\ \E authHeader \in KnownHeaders :
           LET split == SplitBearerToken(authHeader)
               look == IF split.ok THEN Store_LookupToken(split.token) ELSE NotFound
               slot == [NoRequest EXCEPT !.kind = "mw", !.hdr = authHeader,
                                         !.key = split.token, !.at = now,
                                         !.found = look, !.row = look,
                                         !.stale = IF look.ok THEN trail.replaced ELSE {}]
           IN  IF ~look.ok
               THEN /\ slots' = [slots EXCEPT ![i] = NoRequest]
                    /\ call' = [WrapCall(slot) EXCEPT !.at = 0]
                    /\ res' = Unauthorized
               ELSE /\ slots' = [slots EXCEPT ![i] = [slot EXCEPT !.pc = "readToken"]]
                    /\ Other
    /\ UNCHANGED <<now, ms, sq, fresh, webex, backend, trail, cache>>
    /\ UNCHANGED notSession

\* webexAccessToken := record.WebexAccessToken; read is history
Torn_ReadAccessToken(i) ==
    /\ slots[i].pc = "readToken"
    /\ slots' = [slots EXCEPT ![i] =
           [pc |-> "readExpiry", tok |-> Rec(i).WebexAccessToken,
            read |-> Rec(i).WebexAccessToken] @@ @]
    /\ Other
    /\ UNCHANGED <<now, ms, sq, fresh, webex, backend, trail, cache>>
    /\ UNCHANGED notSession

\* time.Now().Add(5 * time.Minute).After(record.ExpiresAt); expiresAt is
\* history
Torn_ReadExpiresAt(i) ==
    /\ slots[i].pc = "readExpiry"
    /\ slots' = [slots EXCEPT ![i] =
           [pc |-> IF NearExpiry(Rec(i), now) THEN "refresh" ELSE "client",
            at |-> now, expiresAt |-> Rec(i).ExpiresAt] @@ @]
    /\ Other
    /\ UNCHANGED <<now, ms, sq, fresh, webex, backend, trail, cache>>
    /\ UNCHANGED notSession

NextTorn ==
    \/ TornTick
    \/ \E i \in Requests : Torn_LookupToken(i)
    \/ \E i \in Requests : Torn_ReadAccessToken(i)
    \/ \E i \in Requests : Torn_ReadExpiresAt(i)
    \/ \E i \in Requests : WrapRefresh_Post(i)
    \/ \E i \in Requests : WrapRefresh_Update(i)
    \/ \E i \in Requests : WrapEvict(i)
    \/ \E i \in Requests : WrapServe(i)

SpecTorn == InitTorn /\ [][NextTorn]_vars

\* the access token and the refresh token were issued together
IssuedTogether(accessToken, refreshToken) ==
    \E n \in 1 .. MaxWebex :
        WebexAccessTokens[n] = accessToken /\ WebexRefreshTokens[n] = refreshToken

\* C36: the access token, the ExpiresAt and the refresh token that a request
\* has read from the record LookupToken returned come from one StoreToken or
\* UpdateWebexToken call: the record expires WebexExpiresIn after its access
\* token was issued, and the refresh token is the one issued with the access
\* token.  (Violated with the in-memory store: UpdateWebexToken writes the
\* record between two reads of a request.)
NoTornRecord ==
    \A i \in Requests :
        /\ "expiresAt" \in DOMAIN slots[i]
               => slots[i].expiresAt = notes.at[slots[i].read] + WebexExpiresIn
        /\ "sent" \in DOMAIN slots[i]
               => IssuedTogether(slots[i].read, slots[i].sent)

\* the same with a SQL store, where it holds
NoTornRecord_SQL == backend = "sql" => NoTornRecord

\* the time at which Webex lets the access token expire
UpstreamExpiry(accessToken) == notes.at[accessToken] + WebexExpiresIn

\* C33: a request that the middleware passes to the protected handler
\* without a refresh carries an access token that has not expired at Webex
\* at the time of the request's expiry check.  (Violated with the in-memory
\* store: the request reads the access token of the record, UpdateWebexToken
\* of a concurrent refresh writes the record, and the request reads the new
\* ExpiresAt and goes on with the old access token.)
ForwardedTokenValid ==
    (call.op = "Wrap" /\ res.status = 200 /\ ~call.refreshed)
        => call.at <= UpstreamExpiry(res.ctxToken)

\* the same with a SQL store, where it holds
ForwardedTokenValid_SQL == backend = "sql" => ForwardedTokenValid

(* SpecExpiry: the flow from /callback to /mcp with one request at a time   *)
(* and the clock standing still while a request is served.  Here            *)
(* ForwardedTokenValid holds, and a request is passed without a refresh at  *)
(* the very minute its access token expires at Webex.                       *)
ExpiryTick ==
    /\ \A i \in Requests : slots[i].pc = "done"
    /\ SessionTick

NextExpiry ==
    \/ ExpiryTick
    \/ \E i \in Solo : HandleCallback(i)
    \/ \E i \in Solo : HandleToken(i)
    \/ \E i \in Solo : ConsumeCommit(i)
    \/ \E i \in Solo : HandleCallback_Issue(i)
    \/ \E i \in Solo : handleAuthCodeExchange(i)
    \/ \E i \in Solo : Wrap(i)
    \/ \E i \in Solo : WrapRefresh(i)
    \/ \E i \in Solo : WrapEvict(i)
    \/ \E i \in Solo : WrapServe(i)

SpecExpiry == InitTorn /\ [][NextExpiry]_vars

-----------------------------------------------------------------------------
(* SpecBurn: /token requests served one after the other, each from          *)
(* ConsumeAuthCode to its answer, while /callback issues new codes, the     *)
(* clock runs and the sweeper ticks.  The codes that a rejected request has *)
(* used up are kept as history.                                             *)

\* POST /token, grant_type=authorization_code: ConsumeAuthCode, the checks
\* on the record, StoreToken, the answer
Burn_HandleToken ==
    /\ \E code \in DOMAIN trail.codeOf : \E clientID \in TokenClientIDs :
       \E redirectURI \in TokenURIs :
           LET m == MemoryStore_ConsumeAuthCode(ms, code, now)
               d == SQLiteStore_ConsumeAuthCode(sq, code, now)
               ret == IF backend = "mem" THEN m.ret ELSE d.ret
               error == IF ~ret.ok THEN "invalid_grant"
                        ELSE ExchangeError(ret.rec, clientID, redirectURI, "")
               opaqueToken == Token(fresh + 1)
               stm == MemoryStore_StoreToken(m.store, opaqueToken,
                          ret.rec.WebexAccessToken, ret.rec.WebexRefreshToken,
                          ret.rec.WebexExpiresIn, now)
               std == SQLiteStore_StoreToken(d.store, opaqueToken,
                          ret.rec.WebexAccessToken, ret.rec.WebexRefreshToken,
                          ret.rec.WebexExpiresIn, now)
           IN  /\ call' = [op |-> "HandleToken", code |-> code, clientID |-> clientID,
                           uri |-> redirectURI, found |-> ret, burnt |-> notes.burnt]
               /\ IF error # ""
                  THEN /\ StoreIs(m.store, d.store)
                       /\ res' = [status |-> 400, error |-> error]
                       /\ notes' = IF ret.ok THEN [notes EXCEPT !.burnt = @ \cup {code}]
                                   ELSE notes
                       /\ UNCHANGED <<fresh, trail>>
                  ELSE /\ fresh < MaxFresh
                       /\ fresh' = fresh + 1
                       /\ StoreIs(stm, std.store)
                       /\ trail' = [trail EXCEPT
                              !.tokenOf = Put(@, opaqueToken,
                                              [code |-> code, state |-> trail.codeOf[code],
                                               late |-> FALSE]),
                              !.redeemed = @ \cup {code}]
                       /\ res' = IF backend = "sql" /\ std.err
                                 THEN [status |-> 500, error |-> "server_error"]
                                 ELSE [status |-> 200, error |-> ""]
                       /\ UNCHANGED notes
    /\ UNCHANGED <<now, webex, backend, slots, cache>>
    /\ UNCHANGED <<stored, uses, raceVars, registered, shadow, life, tools, mercury>>

NextBurn ==
    \/ SessionTick
    \/ Sweep
    \/ \E i \in Solo : HandleCallback(i)
    \/ \E i \in Solo : ConsumeCommit(i)
    \/ \E i \in Solo : HandleCallback_Issue(i)
    \/ Burn_HandleToken

SpecBurn == InitSession /\ [][NextBurn]_vars

AuthCodesNow == IF backend = "mem" THEN ms.authCodes ELSE sq.authCodes

-----------------------------------------------------------------------------
(* SpecRevoke: refreshes in flight while tokens are revoked.  Both refresh  *)
(* paths, the middleware's and the refresh_token grant's, are cut where     *)
(* they wait for Webex, between LookupToken and UpdateWebexToken.           *)

\* POST /token, grant_type=refresh_token, up to the answer of Webex
Grant_Post(i) ==
    /\ slots[i].pc = "done"
    /\ \E refreshToken \in PresentedTokens : \E refreshedOK \in BOOLEAN :
           LET look == Store_LookupToken(refreshToken)
           IN  IF ~look.ok \/ ~refreshedOK
               THEN /\ slots' = [slots EXCEPT ![i] = NoRequest]
                    /\ call' = [op |-> "handleRefreshToken", key |-> refreshToken]
                    /\ res' = [status |-> 400, error |-> "invalid_grant"]
                    /\ UNCHANGED <<webex, notes>>
               ELSE /\ webex < MaxWebex
                    /\ webex' = webex + 1
                    /\ Mint(NextWebexTokens.AccessToken)
                    /\ slots' = [slots EXCEPT ![i] =
                           [sent |-> look.rec.WebexRefreshToken,
                            newTokens |-> NextWebexTokens] @@
                           [NoRequest EXCEPT !.kind = "grant", !.pc = "grantUpdate",
                                             !.key = refreshToken, !.row = look]]
                    /\ Other
    /\ UNCHANGED <<now, ms, sq, fresh, backend, cache, trail>>
    /\ UNCHANGED <<stored, uses, raceVars, registered, shadow, life, tools, mercury>>

\* oh.store.UpdateWebexToken(refreshToken, ..) and the answer
Grant_Update(i) ==
    /\ slots[i].pc = "grantUpdate"
    /\ Store_UpdateWebexToken(slots[i].key, slots[i].newTokens)
    /\ trail' = [trail EXCEPT !.replaced = @ \cup Replaced(slots[i].key)]
    /\ slots' = [slots EXCEPT ![i] = NoRequest]
    /\ call' = [op |-> "UpdateWebexToken", key |-> slots[i].key]
    /\ res' = [status |-> 200, error |-> ""]
    /\ UNCHANGED <<now, fresh, webex, backend, cache>>
    /\ UNCHANGED notSession

NextRevoke ==
    \/ RevokeToken
    \/ \E i \in Requests : Wrap_Known(i)
    \/ \E i \in Requests : WrapRefresh_Post(i)
    \/ \E i \in Requests : WrapRefresh_Update(i)
    \/ \E i \in Requests : WrapEvict(i)
    \/ \E i \in Requests : WrapServe(i)
    \/ \E i \in Requests : Grant_Post(i)
    \/ \E i \in Requests : Grant_Update(i)
    \/ SessionTick

SpecRevoke == InitSession /\ [][NextRevoke]_vars

\* C35: a token that was revoked is not found by LookupToken in any later
\* state, also when a refresh that looked the token up before the revocation
\* calls UpdateWebexToken after it
RevokedStaysRevoked ==
    \A opaqueToken \in trail.revoked : ~Store_LookupToken(opaqueToken).ok

\* UpdateWebexToken was called for a token that was revoked while the refresh
\* waited for Webex
RevokedStaysRevokedWitness ==
    /\ call.op = "UpdateWebexToken"
    /\ call.key \in trail.revoked
    /\ ~Store_LookupToken(call.key).ok

-----------------------------------------------------------------------------
(* SpecCacheRace: GetOrCreate called from goroutines of their own.  The     *)
(* method is cut where it gives up cc.mu: after the lookup under the read   *)
(* lock, and before the store under the write lock.  A client carries, as   *)
(* the identity of the object, the time it was made and the goroutine that  *)
(* made it.                                                                 *)

MaxCalls == 2

\* history: the number of GetOrCreate calls the goroutine has made
CallsOf(i) == IF "n" \in DOMAIN slots[i] THEN slots[i].n ELSE 0

\* the calls that have missed and not yet stored their client for the key
InFlight(key) ==
    {<<j, CallsOf(j)>> : j \in {x \in Requests : /\ slots[x].pc = "create"
                                                  /\ tokenHash(slots[x].tok) = key}}

\* key := tokenHash(accessToken); the lookup under cc.mu.RLock; with is
\* history: the calls in flight for the same key when this one missed
Race_GetOrCreate(i) ==
    /\ slots[i].pc = "done"
    /\ CallsOf(i) < MaxCalls
    /\ \E accessToken \in CacheTokens :
           LET key == tokenHash(accessToken)
               hit == Has(cache, key) /\ now < cache[key].expiresAt
               slot == [n |-> CallsOf(i) + 1, with |-> IF hit THEN {} ELSE InFlight(key),
                        got |-> IF hit THEN cache[key].client ELSE [builtOn |-> ""]] @@
                       [NoRequest EXCEPT !.kind = "cache", !.tok = accessToken,
                                         !.pc = IF hit THEN "done" ELSE "create"]
           IN  slots' = [slots EXCEPT ![i] = slot]
    /\ Other
    /\ UNCHANGED <<now, ms, sq, fresh, webex, backend, trail, cache>>
    /\ UNCHANGED notSession

\* webex.NewClient(accessToken, cc.config); the store under cc.mu.Lock
Race_Store(i) ==
    /\ slots[i].pc = "create"
    /\ LET client == [builtOn |-> slots[i].tok, madeAt |-> now, by |-> i]
       IN  /\ cache' = Put(cache, tokenHash(slots[i].tok),
                           [client |-> client, expiresAt |-> now + CacheTTL])
           /\ slots' = [slots EXCEPT ![i] = [@ EXCEPT !.pc = "done", !.got = client]]
    /\ Other
    /\ UNCHANGED <<now, ms, sq, fresh, webex, backend, trail>>
    /\ UNCHANGED notSession

NextCacheRace ==
    \/ SessionTick
    \/ \E i \in Requests : Race_GetOrCreate(i)
    \/ \E i \in Requests : Race_Store(i)

SpecCacheRace == InitSession /\ [][NextCacheRace]_vars

\* C37: two GetOrCreate calls for the same token that both found no valid
\* entry, the second while the first was in flight, return the same client,
\* and the entry of the cache for the token holds that client.  (Violated:
\* each call builds a client of its own and stores it; the second store
\* replaces the first.)
OneClientPerToken ==
    \A i, j \in Requests :
        (/\ slots[i].kind = "cache" /\ slots[i].pc = "done"
         /\ slots[j].kind = "cache" /\ slots[j].pc = "done"
         /\ <<j, CallsOf(j)>> \in slots[i].with)
            => /\ slots[i].got = slots[j].got
               /\ LET key == tokenHash(slots[i].tok)
                  IN  Has(cache, key) => cache[key].client = slots[i].got

-----------------------------------------------------------------------------
(* The streaming manager (MercuryManager).  Its methods are cut where they  *)
(* take m.mu or uc.mu: every step below runs under one of the two locks.    *)
(* A userConnection is a place in conns; a connection that was taken out of *)
(* userConns stays in conns, as the object that a caller may still hold.    *)

notMercury == <<storeVars, raceVars, clientVars, flowVars, sessionVars, tools, notes>>

MaxSubs == 3

MaxConns == 3

MaxWaits == 2

\* the subscription ids: subID is made of the token hash, the room and the
\* clock, here of the number of the Subscribe
SubIDs == [n \in 1 .. MaxSubs |-> <<"sub", n>>]

\* the access tokens and the MCP sessions of the callers
MercuryTokens == {WebexAccessTokens[1]}

MercurySessions == {"s1", "s2"}

\* hashToken: SHA-256 of the access token
hashToken(accessToken) == <<"sha256", accessToken>>

\* getOrCreateConnection, under m.mu: the manager after the call, the
\* connection returned, and whether client.Conversation() failed
getOrCreateConnection(m, tokHash, conversationOK) ==
    IF Has(m.userConns, tokHash)
    THEN LET uc == m.userConns[tokHash]
         IN  [m |-> [m EXCEPT !.conns[uc].refCount = @ + 1], uc |-> uc, err |-> FALSE]
    ELSE IF ~conversationOK THEN [m |-> m, uc |-> 0, err |-> TRUE]
    ELSE LET uc == Len(m.conns) + 1
         IN  [m |-> [m EXCEPT !.conns = Append(@, [connected |-> FALSE, refCount |-> 1,
                                                   tokenHash |-> tokHash]),
                              !.userConns = Put(@, tokHash, uc)],
              uc |-> uc, err |-> FALSE]

\* Unsubscribe has returned: UnsubscribeBySession goes on with the next id
Done(c) == IF c.todo = {} THEN IdleCall ELSE [c EXCEPT !.pc = "unsubDelete"]

\* Unsubscribe up to the first m.mu.Unlock: the subscription is looked up and
\* deleted
UnsubscribeDelete(m, i, c, subscriptionID) ==
    IF ~Has(m.subscriptions, subscriptionID)
    THEN [m EXCEPT !.calls[i] = Done(c)]
    ELSE [m EXCEPT !.subscriptions = Del(@, subscriptionID),
                   !.calls[i] = [c EXCEPT !.pc = "unsubFind",
                                          !.hash = m.subscriptions[subscriptionID].TokenHash]]

\* Subscribe: hashToken, getOrCreateConnection, and the subscription id, which
\* the call keeps in todo
Subscribe(i) ==
    /\ mercury.calls[i].pc = "idle"
    /\ mercury.made < MaxSubs
    /\ \E accessToken \in MercuryTokens : \E sessionID \in MercurySessions :
       \E conversationOK \in BOOLEAN :
           LET got == getOrCreateConnection(mercury, hashToken(accessToken), conversationOK)
           IN  /\ got.uc <= MaxConns
               /\ mercury' = IF got.err THEN mercury
                             ELSE [got.m EXCEPT !.made = @ + 1, !.calls[i] =
                                      [op |-> "Subscribe", pc |-> "register",
                                       hash |-> hashToken(accessToken), uc |-> got.uc,
                                       todo |-> {SubIDs[mercury.made + 1]},
                                       session |-> sessionID]]
    /\ UNCHANGED notMercury

\* m.subscriptions[subID] = sub, under m.mu
Subscribe_Register(i) ==
    /\ mercury.calls[i].pc = "register"
    /\ LET c == mercury.calls[i]
           subID == CHOOSE id \in c.todo : TRUE
       IN  mercury' = [mercury EXCEPT
               !.subscriptions = Put(@, subID, [ID |-> subID, TokenHash |-> c.hash,
                                                SessionID |-> c.session]),
               !.calls[i] = [op |-> "Subscribe", pc |-> "connect", hash |-> c.hash,
                             uc |-> c.uc, todo |-> {subID}]]
    /\ UNCHANGED notMercury

\* under uc.mu: Connect unless connected; when Connect fails the lock is given
\* up and m.Unsubscribe(subID) is called
Subscribe_Connect(i) ==
    /\ mercury.calls[i].pc = "connect"
    /\ LET c == mercury.calls[i]
       IN  IF mercury.conns[c.uc].connected
           THEN mercury' = [mercury EXCEPT !.calls[i] = IdleCall]
           ELSE \E connectOK \in BOOLEAN :
                    mercury' = IF connectOK
                               THEN [mercury EXCEPT !.conns[c.uc].connected = TRUE,
                                                    !.calls[i] = IdleCall]
                               ELSE [mercury EXCEPT !.calls[i].pc = "unsubDelete"]
    /\ UNCHANGED notMercury

\* the ids that a Subscribe has returned to its caller
Returned ==
    {SubIDs[n] : n \in 1 .. mercury.made}
        \ UNION {mercury.calls[i].todo : i \in Requests}

\* Unsubscribe(subscriptionID) up to the first m.mu.Unlock; the caller has the
\* id from a Subscribe that returned
Unsubscribe(i) ==
    /\ mercury.calls[i].pc = "idle"
    /\ \E subscriptionID \in Returned :
           mercury' = UnsubscribeDelete(mercury, i,
                          [IdleCall EXCEPT !.op = "Unsubscribe"], subscriptionID)
    /\ UNCHANGED notMercury

\* the Unsubscribe that Subscribe or UnsubscribeBySession calls, up to the
\* first m.mu.Unlock
Unsubscribe_Delete(i) ==
    /\ mercury.calls[i].pc = "unsubDelete"
    /\ \E subscriptionID \in mercury.calls[i].todo :
           mercury' = UnsubscribeDelete(mercury, i,
                          [mercury.calls[i] EXCEPT !.todo = @ \ {subscriptionID}],
                          subscriptionID)
    /\ UNCHANGED notMercury

\* uc, ok := m.userConns[sub.TokenHash], under m.mu.RLock
Unsubscribe_Find(i) ==
    /\ mercury.calls[i].pc = "unsubFind"
    /\ LET c == mercury.calls[i]
       IN  mercury' = IF Has(mercury.userConns, c.hash)
                      THEN [mercury EXCEPT !.calls[i].pc = "unsubRelease",
                                           !.calls[i].uc = mercury.userConns[c.hash]]
                      ELSE [mercury EXCEPT !.calls[i] = Done(c)]
    /\ UNCHANGED notMercury

\* under uc.mu: refCount--, and Disconnect when it is not positive
Unsubscribe_Release(i) ==
    /\ mercury.calls[i].pc = "unsubRelease"
    /\ LET c == mercury.calls[i]
           refCount == mercury.conns[c.uc].refCount - 1
       IN  mercury' = IF refCount <= 0
                      THEN [mercury EXCEPT !.conns[c.uc].refCount = refCount,
                                           !.conns[c.uc].connected = FALSE,
                                           !.calls[i].pc = "unsubRemove"]
                      ELSE [mercury EXCEPT !.conns[c.uc].refCount = refCount,
                                           !.calls[i] = Done(c)]
    /\ UNCHANGED notMercury

\* delete(m.userConns, sub.TokenHash), under m.mu
Unsubscribe_Remove(i) ==
    /\ mercury.calls[i].pc = "unsubRemove"
    /\ LET c == mercury.calls[i]
       IN  mercury' = [mercury EXCEPT !.userConns = Del(@, c.hash),
                                      !.calls[i] = Done(c)]
    /\ UNCHANGED notMercury

\* UnsubscribeBySession: the ids of the session's subscriptions are collected
\* under m.mu.RLock
UnsubscribeBySession(i) ==
    /\ mercury.calls[i].pc = "idle"
    /\ \E sessionID \in MercurySessions :
           LET toCancel == {id \in DOMAIN mercury.subscriptions :
                                mercury.subscriptions[id].SessionID = sessionID}
           IN  mercury' = [mercury EXCEPT !.calls[i] =
                   Done([IdleCall EXCEPT !.op = "UnsubscribeBySession",
                                         !.todo = toCancel])]
    /\ UNCHANGED notMercury

\* WaitForMessage: hashToken, getOrCreateConnection
WaitForMessage(i) ==
    /\ mercury.calls[i].pc = "idle"
    /\ mercury.waits < MaxWaits
    /\ \E accessToken \in MercuryTokens : \E conversationOK \in BOOLEAN :
           LET got == getOrCreateConnection(mercury, hashToken(accessToken), conversationOK)
           IN  /\ got.uc <= MaxConns
               /\ mercury' = IF got.err THEN mercury
                             ELSE [got.m EXCEPT !.waits = @ + 1, !.calls[i] =
                                      [op |-> "WaitForMessage", pc |-> "waitConnect",
                                       hash |-> hashToken(accessToken), uc |-> got.uc,
                                       todo |-> {},
                                       before |-> IF Has(mercury.userConns, hashToken(accessToken))
                                                  THEN mercury.conns[got.uc].refCount ELSE 0]]
    /\ UNCHANGED notMercury

\* under uc.mu: Connect unless connected; then the message or the timeout
WaitForMessage_Connect(i) ==
    /\ mercury.calls[i].pc = "waitConnect"
    /\ LET c == mercury.calls[i]
       IN  IF mercury.conns[c.uc].connected
           THEN mercury' = [mercury EXCEPT !.calls[i].pc = "wait"]
           ELSE \E connectOK \in BOOLEAN :
                    mercury' = IF connectOK
                               THEN [mercury EXCEPT !.conns[c.uc].connected = TRUE,
                                                    !.calls[i].pc = "wait"]
                               ELSE [mercury EXCEPT !.calls[i] = IdleCall]
    /\ UNCHANGED notMercury

\* a message arrives or the timeout passes; the handlers are taken off;
\* waited is history: the connection and its refCount before the call
WaitForMessage_Return(i) ==
    /\ mercury.calls[i].pc = "wait"
    /\ mercury' = [mercury EXCEPT !.calls[i] =
           [waited |-> [uc |-> mercury.calls[i].uc, before |-> mercury.calls[i].before]]
               @@ IdleCall]
    /\ UNCHANGED notMercury

(* SpecStreaming: the calls are made one after the other. *)
NextStreaming ==
    \/ \E i \in Solo : Subscribe(i)
    \/ \E i \in Solo : Subscribe_Register(i)
    \/ \E i \in Solo : Subscribe_Connect(i)
    \/ \E i \in Solo : Unsubscribe(i)
    \/ \E i \in Solo : Unsubscribe_Delete(i)
    \/ \E i \in Solo : Unsubscribe_Find(i)
    \/ \E i \in Solo : Unsubscribe_Release(i)
    \/ \E i \in Solo : Unsubscribe_Remove(i)
    \/ \E i \in Solo : UnsubscribeBySession(i)
    \/ \E i \in Solo : WaitForMessage(i)
    \/ \E i \in Solo : WaitForMessage_Connect(i)
    \/ \E i \in Solo : WaitForMessage_Return(i)

SpecStreaming == Init /\ [][NextStreaming]_vars

\* no call is inside a method of the manager
Quiescent == \A i \in Requests : mercury.calls[i].pc = "idle"

\* the active subscriptions of a token hash
SubscriptionsOf(tokHash) ==
    {id \in DOMAIN mercury.subscriptions : mercury.subscriptions[id].TokenHash = tokHash}

\* C38: between the calls, the refCount of every connection in userConns is
\* the number of active subscriptions of its token hash, and a WaitForMessage
\* that has returned has left the refCount of its connection as it found it.
\* (Violated: WaitForMessage takes the connection with getOrCreateConnection,
\* which counts it, and never gives it back.)
RefCountMatches ==
    Quiescent =>
        /\ \A tokHash \in DOMAIN mercury.userConns :
               mercury.conns[mercury.userConns[tokHash]].refCount
                   = Cardinality(SubscriptionsOf(tokHash))
        /\ \A i \in Requests :
               "waited" \in DOMAIN mercury.calls[i]
                   => mercury.conns[mercury.calls[i].waited.uc].refCount
                          = mercury.calls[i].waited.before

(* SpecMercury: Subscribe and Unsubscribe called from goroutines of their   *)
(* own.                                                                     *)
NextMercury ==
    \/ \E i \in Requests : Subscribe(i)
    \/ \E i \in Requests : Subscribe_Register(i)
    \/ \E i \in Requests : Subscribe_Connect(i)
    \/ \E i \in Requests : Unsubscribe(i)
    \/ \E i \in Requests : Unsubscribe_Delete(i)
    \/ \E i \in Requests : Unsubscribe_Find(i)
    \/ \E i \in Requests : Unsubscribe_Release(i)
    \/ \E i \in Requests : Unsubscribe_Remove(i)

SpecMercury == Init /\ [][NextMercury]_vars

\* C39: a userConnection that is connected is the one userConns holds for its
\* token hash, and when no subscription is left and no call is in flight
\* there is no connected connection and userConns is empty.  (Violated: an
\* Unsubscribe of the last subscription disconnects the connection and
\* gives up uc.mu, a Subscribe finds the connection still in userConns, the
\* Unsubscribe deletes the entry, and the Subscribe connects the connection
\* it holds.)
ConnectedAreListed ==
    /\ \A uc \in 1 .. Len(mercury.conns) :
           mercury.conns[uc].connected
               => /\ Has(mercury.userConns, mercury.conns[uc].tokenHash)
                  /\ mercury.userConns[mercury.conns[uc].tokenHash] = uc
    /\ (Quiescent /\ DOMAIN mercury.subscriptions = {})
           => /\ \A uc \in 1 .. Len(mercury.conns) : ~mercury.conns[uc].connected
              /\ DOMAIN mercury.userConns = {}

====
